---------------------------- MODULE Spec2Model ----------------------------
(***************************************************************************)
(* A model of oo_socket::udp::socket (udp_socket.hpp): a UDP endpoint with *)
(* a general lock (member_mutex), a send-path lock (send_mutex) and a      *)
(* receive-path lock (receive_mutex).  The POSIX branch of the conditional *)
(* code is the one modelled; of the _WIN32 branch, the call of WSAStartup  *)
(* at the start of the constructor, the timeout code receive tests for and *)
(* the result of recv for a datagram longer than the buffer.  Two          *)
(* endpoints of the class live on one host; client threads construct and   *)
(* destroy them and call their public methods; the kernel side of a socket *)
(* (its descriptor, binding, receive queue and options) and the network    *)
(* (datagrams in flight, which may be delivered in any order or lost) are  *)
(* part of the state.  All calls pass the default flags = 0.               *)
(***************************************************************************)
EXTENDS Integers, Sequences, FiniteSets, TLC

(***************************************************************************)
(* Bounds of the model.                                                    *)
(***************************************************************************)
\* longest send buffer, in bytes
MaxLen == 2
\* calls of receive, of configure_remote_host and of send made in the
\* behaviours that study the receive path and the remote configuration
MaxReceives == 2
MaxConfigures == 2
MaxSends == 2
\* constructor calls made in the behaviours that study construction
MaxConstructs == 2

(***************************************************************************)
(* Program and platform constants.                                         *)
(***************************************************************************)
\* errors.hpp: enum codes
INITIALIZATION_ERROR == 0
CONFIGURATION_ERROR == 1
RECEIVE_ERROR == 2
SEND_ERROR == 3
\* <errno.h> on Linux; EWOULDBLOCK is the same number as EAGAIN
EAGAIN == 11
EWOULDBLOCK == 11
EINTR == 4
EINVAL == 22
ENETUNREACH == 101
EBADF == 9
EMFILE == 24
EADDRINUSE == 98
\* <winsock2.h>: a code WSAStartup returns when it fails
WSASYSNOTREADY == 10091
\* <winsock2.h>: WSAGetLastError() after a recv that timed out, and after a
\* recv into a buffer shorter than the datagram
WSAETIMEDOUT == 10060
WSAEMSGSIZE == 10040
\* errno values of a failing recv other than a timeout, of a failing sendto
\* and of a failing setsockopt
RecvErrnos == {EINTR}
SendErrnos == {ENETUNREACH}
SetsockoptErrnos == {EINVAL}
\* errno values of a failing socket and of a failing bind
SocketErrnos == {EMFILE}
BindErrnos == {EADDRINUSE}
\* the platforms the conditional code distinguishes (_WIN32 or not)
Platforms == {"posix", "windows"}

Threads == {"t1", "t2"}
Sockets == {"s1", "s2"}
NoThread == "none"

Bytes == {0, 1}
\* sizeof(T) of the template forms: char and a two-byte element type
ElemSizes == {1, 2}
ByteSeqs == UNION {[1..n -> Bytes] : n \in 0..MaxLen}

\* the port each endpoint was constructed with (test_udp_socket.cpp uses
\* 16666 for the receiving endpoint)
BoundPort(s) == IF s = "s1" THEN 16666 ELSE 17777
Ports == {BoundPort(s) : s \in Sockets}

\* address strings, as the sequence of their dot-separated decimal fields:
\* "127.0.0.1" (this host), "10.0.0.2" (another host), "10.0.256" (invalid)
Loopback == <<127, 0, 0, 1>>
OtherHost == <<10, 0, 0, 2>>
BadAddress == <<10, 0, 256>>
AddrTexts == {Loopback, OtherHost, BadAddress}
\* the empty string, the default address of the constructor
EmptyAddress == <<>>
\* <netinet/in.h>
INADDR_ANY == 0

\* An unsigned number wider than 31 bits is kept as its 16-bit limbs, least
\* significant first: two limbs for an unsigned int, four for an unsigned
\* long long.
LimbBase == 65536
\* the unsigned int with the value v, for v below 2^31
to_unsigned_int(v) == <<v % LimbBase, v \div LimbBase>>

\* receive timeouts in milliseconds (unsigned int) that callers set
TimeoutsMs == {to_unsigned_int(0), to_unsigned_int(1500)}
\* timeouts at the edges of the conversion and of the 32-bit range: 0, 1,
\* 999, 1000, 1001, 65535, 65536, 2^31 - 1, 2^31, 4294966999, 4294967000
\* and 2^32 - 1
WideTimeoutsMs ==
    {to_unsigned_int(v) : v \in {0, 1, 999, 1000, 1001, 65535, 65536, 2147483647}}
      \cup {<<0, 32768>>, <<65239, 65535>>, <<65240, 65535>>, <<65535, 65535>>}
\* capacities (buffer_size) receive is called with
Capacities == {1, MaxLen}

(***************************************************************************)
(* Library functions the class calls.                                      *)
(***************************************************************************)
\* htons on a little-endian host: the two bytes of a uint16 swapped
htons(p) == (p % 256) * 256 + (p \div 256)
ntohs(n) == (n % 256) * 256 + (n \div 256)

\* inet_pton(AF_INET, text, dst) returns 1 iff text is four fields 0..255
inet_pton_ok(text) == Len(text) = 4 /\ \A i \in 1..4 : text[i] \in 0..255
\* the in_addr_t value of four address bytes stored in network order and
\* read on a little-endian host
PackAddr(b) == b[1] + b[2] * 256 + b[3] * 65536 + b[4] * 16777216
UnpackAddr(v) == <<v % 256, (v \div 256) % 256, (v \div 65536) % 256, v \div 16777216>>
inet_pton_value(text) == PackAddr(text)
\* number of leading fields of text that are valid address bytes
RECURSIVE ValidPrefix(_, _)
ValidPrefix(text, i) ==
    IF i > Len(text) \/ i > 4 THEN i - 1
    ELSE IF text[i] \in 0..255 THEN ValidPrefix(text, i + 1) ELSE i - 1
\* what a failing inet_pton may leave in dst: POSIX does not say; glibc
\* leaves dst alone, musl has stored the fields parsed before the bad one
inet_pton_failed_dst(text, dst) ==
    LET old == UnpackAddr(dst)
        n == ValidPrefix(text, 1)
        part == [i \in 1..4 |-> IF i <= n THEN text[i] ELSE old[i]]
    IN {dst, PackAddr(part)}

\* std::vector<T> of n elements viewed as bytes, and bytes viewed as elements
RECURSIVE Flatten(_)
Flatten(elems) == IF elems = <<>> THEN <<>> ELSE Head(elems) \o Flatten(Tail(elems))
ToElems(bytes, k) == [i \in 1..(Len(bytes) \div k) |-> SubSeq(bytes, (i - 1) * k + 1, i * k)]
VectorsOf(k) == {ToElems(b, k) : b \in {x \in ByteSeqs : Len(x) % k = 0}}

Min(a, b) == IF a <= b THEN a ELSE b

\* recv_copy with one byte of the buffer kept back (as for a terminator)
recv_copy_short(data, buffer_size) == SubSeq(data, 1, Min(Len(data), buffer_size - 1))

\* recv(fd, buffer, buffer_size, 0) on a datagram socket copies the first
\* buffer_size bytes of the datagram and discards the rest
recv_copy(data, buffer_size) == SubSeq(data, 1, Min(Len(data), buffer_size))

\* the destination the kernel sends to, given the sockaddr_in passed to sendto
sendto_dest(sa) == [addr |-> sa.sin_addr, port |-> ntohs(sa.sin_port)]

\* (int)(u / 1000.0) for an unsigned int u: the double quotient is within
\* 2^-30 of u / 1000, whose fraction is at most 0.999, so the truncation
\* is the integer quotient; computed limb by limb
quotient_1000(u) ==
    (u[2] \div 1000) * LimbBase + ((u[2] % 1000) * LimbBase + u[1]) \div 1000
\* the limbs of a * 1000.0, a product below 2^53 and so exact in a double
product_1000(a) ==
    LET low == (a % LimbBase) * 1000
    IN <<low % LimbBase, (a \div LimbBase) * 1000 + low \div LimbBase>>
\* (int)(u - p) for the doubles u and p, both whole numbers
difference(u, p) == (u[2] - p[2]) * LimbBase + (u[1] - p[1])

\* timeout_struct reading a timeout of 0 as "no preference" and applying a
\* default of one second
timeout_struct_default(timeout_ms) ==
    LET ms == IF timeout_ms = to_unsigned_int(0) THEN to_unsigned_int(1000) ELSE timeout_ms
        tv_sec == quotient_1000(ms)
    IN [tv_sec |-> tv_sec, tv_usec |-> difference(ms, product_1000(tv_sec)) * 1000]

\* timeout_struct with timeout_ms converted to int before the division
timeout_struct_signed(timeout_ms) ==
    LET ms == IF timeout_ms[2] >= LimbBase \div 2
              THEN (timeout_ms[2] - LimbBase) * LimbBase + timeout_ms[1]
              ELSE timeout_ms[2] * LimbBase + timeout_ms[1]
        tv_sec == IF ms >= 0 \/ ms % 1000 = 0 THEN ms \div 1000 ELSE ms \div 1000 + 1
    IN [tv_sec |-> tv_sec, tv_usec |-> (ms - tv_sec * 1000) * 1000]

\* set_socket_receive_timeout: the struct timeval built from timeout_ms,
\*   tv_sec = (int)(timeout_ms / 1000.0)
\*   tv_usec = (int)(timeout_ms - (tv_sec * 1000.0)) * 1000
timeout_struct(timeout_ms) ==
    LET tv_sec == quotient_1000(timeout_ms)
    IN [tv_sec |-> tv_sec, tv_usec |-> difference(timeout_ms, product_1000(tv_sec)) * 1000]
\* SO_RCVTIMEO: a zero timeval means recv blocks until a datagram arrives
Blocking(tv) == tv.tv_sec = 0 /\ tv.tv_usec = 0

\* conversion of an int (the value socket() returns) to unsigned long long
to_unsigned_long_long(v) ==
    <<v % LimbBase, (v \div LimbBase) % LimbBase,
      IF v < 0 THEN LimbBase - 1 ELSE 0, IF v < 0 THEN LimbBase - 1 ELSE 0>>
\* a < b on unsigned long long operands
unsigned_less(a, b) ==
    \E i \in 1..4 : a[i] < b[i] /\ \A j \in (i + 1)..4 : a[j] = b[j]
\* conversion of an unsigned long long to the int parameter of setsockopt,
\* bind, sendto, recv and close: the low 32 bits, as a signed number
to_int(u) ==
    IF u[2] >= LimbBase \div 2 THEN (u[2] - LimbBase) * LimbBase + u[1]
    ELSE u[2] * LimbBase + u[1]

\* socket() returns the lowest descriptor not open in the process; 0, 1 and
\* 2 are the standard streams
FirstFd == 3
lowest_free(fds) ==
    CHOOSE n \in FirstFd..(FirstFd + Cardinality(fds)) :
        n \notin fds /\ \A m \in FirstFd..(n - 1) : m \in fds
\* the port the kernel gives a socket bound to port 0
EphemeralPort == 49152

(***************************************************************************)
(* State.                                                                  *)
(***************************************************************************)
VARIABLES
    pc,                  \* pc[t]: where thread t is inside a method
    call,                \* call[t]: the method t is in, its arguments, locals
    ret,                 \* ret[t]: how the last call of t ended
    budget,              \* budget[op]: calls of method op still to be made
    remote_address,      \* remote_address[s]: sockaddr_in of the remote host
    remote_address_set,  \* remote_address_set[s]
    member_mutex,        \* owner of each lock, or NoThread
    send_mutex,
    receive_mutex,
    so_rcvtimeo,         \* so_rcvtimeo[s]: the socket's SO_RCVTIMEO timeval
    rxq,                 \* rxq[s]: datagrams queued in the socket, oldest first
    wire,                \* datagrams sent and neither delivered nor lost
    nextId,              \* identity given to the next datagram sent
    consumed,            \* history: the receive results that took a datagram
    lastCfg,             \* history: lastCfg[s], the last configure call ended
    cfgOK,               \* history: cfgOK[s], destinations configured
    lastTimeout,         \* history: lastTimeout[s], the timeout_ms last applied
    crashed,             \* the process was killed by a memory error
    os,                  \* the platform the class was compiled for
    wsa_startups,        \* calls of WSAStartup made by the process so far
    obj,                 \* obj[s]: lifetime of the socket object
    socket_file_descriptor, \* socket_file_descriptor[s], an unsigned long long
    local_address,       \* local_address[s]: sockaddr_in passed to bind
    open_fds,            \* kernel: the descriptors open in the process
    sockopts,            \* kernel: sockopts[s], the boolean options switched on
    bound                \* kernel: bound[s], the address the socket is bound to

threadVars == <<pc, call, ret, budget>>
remoteVars == <<remote_address, remote_address_set>>
lockVars == <<member_mutex, send_mutex, receive_mutex>>
netVars == <<rxq, wire, nextId, consumed>>
histVars == <<lastCfg, cfgOK, lastTimeout>>
lifeVars == <<os, wsa_startups, obj, socket_file_descriptor, local_address, open_fds, sockopts, bound>>
vars == <<threadVars, remoteVars, lockVars, so_rcvtimeo, netVars, histVars, crashed, lifeVars>>

Ops == {"send_to", "send", "receive", "configure_remote_host", "set_socket_receive_timeout",
        "construct", "destroy"}
NoAddr == [sin_family |-> 0, sin_port |-> 0, sin_addr |-> 0]
AF_INET == 2
NoDgram == [id |-> 0, src |-> "none", dst |-> [addr |-> 0, port |-> 0], data |-> <<>>]
NoCall == [op |-> "none", by |-> "none", s |-> "none", form |-> "none", k |-> 1, buf |-> <<>>,
           port |-> 0, addr |-> <<>>, cap |-> 0, ms |-> to_unsigned_int(0),
           address_struct |-> NoAddr, before |-> NoAddr, before_set |-> FALSE]
NoRet == [op |-> "none", by |-> "none", s |-> "none", form |-> "none", k |-> 1, cap |-> 0,
          thrown |-> FALSE, kind |-> -1, msg |-> "", code |-> 0, value |-> 0,
          out |-> <<>>, overflow |-> FALSE, errno |-> 0,
          platform |-> "none", dgram |-> NoDgram, sent |-> NoDgram, buf |-> <<>>]

\* BytesOf with the length of the vector form counted in elements:
\* buffer.size() bytes are passed instead of buffer.size() * sizeof(T)
BytesOf_elements(c) == IF c.form = "vector" THEN SubSeq(Flatten(c.buf), 1, Len(c.buf)) ELSE c.buf

\* the bytes a call passes to sendto: buffer.data(), buffer.size() * sizeof(T)
\* for the vector form, buffer and buffer_size for the pointer form
BytesOf(c) == IF c.form = "vector" THEN Flatten(c.buf) ELSE c.buf

\* contents of the sockaddr_in member before configure_remote_host first
\* writes it: the constructor does not initialise it
Uninitialised == {[sin_family |-> 0, sin_port |-> 0, sin_addr |-> 0],
                  [sin_family |-> AF_INET, sin_port |-> htons(17777), sin_addr |-> PackAddr(OtherHost)]}

\* the descriptors socket() gave the two endpoints, s1 constructed first
ConstructedFd(s) == IF s = "s1" THEN FirstFd ELSE FirstFd + 1
\* the kernel has the descriptor of endpoint s open
Open(s) == to_int(socket_file_descriptor[s]) \in open_fds

\* the state after both endpoints were constructed by a build for one of
\* platforms and set_socket_receive_timeout(timeout_ms) was called on each;
\* b is the call budget and used the endpoints whose remote configuration
\* the callers touch
InitSet(b, used, platforms, timeout_ms) ==
    /\ pc = [t \in Threads |-> "idle"]
    /\ call = [t \in Threads |-> NoCall]
    /\ ret = [t \in Threads |-> NoRet]
    /\ budget = b
    /\ remote_address \in {f \in [Sockets -> Uninitialised] :
                               \A s \in Sockets \ used : f[s] = NoAddr}
    /\ remote_address_set = [s \in Sockets |-> FALSE]
    /\ member_mutex = [s \in Sockets |-> NoThread]
    /\ send_mutex = [s \in Sockets |-> NoThread]
    /\ receive_mutex = [s \in Sockets |-> NoThread]
    /\ so_rcvtimeo = [s \in Sockets |-> timeout_struct(timeout_ms)]
    /\ rxq = [s \in Sockets |-> <<>>]
    /\ wire = {}
    /\ nextId = 1
    /\ consumed = <<>>
    /\ lastCfg = [s \in Sockets |-> [ended |-> FALSE, ok |-> FALSE, port |-> 0, addr |-> <<>>]]
    /\ cfgOK = [s \in Sockets |-> {}]
    /\ lastTimeout = [s \in Sockets |-> timeout_ms]
    /\ crashed = FALSE
    /\ os \in platforms
    /\ wsa_startups = (IF os = "windows" THEN Cardinality(Sockets) ELSE 0)
    /\ obj = [s \in Sockets |-> "alive"]
    /\ socket_file_descriptor = [s \in Sockets |-> to_unsigned_long_long(ConstructedFd(s))]
    /\ local_address = [s \in Sockets |-> [sin_family |-> AF_INET, sin_port |-> htons(BoundPort(s)),
                                            sin_addr |-> INADDR_ANY]]
    /\ open_fds = {ConstructedFd(s) : s \in Sockets}
    /\ sockopts = [s \in Sockets |-> {"SO_REUSEADDR", "SO_BROADCAST"}]
    /\ bound = [s \in Sockets |-> [addr |-> INADDR_ANY, port |-> BoundPort(s)]]

\* the state right after both endpoints were constructed: the constructor
\* has set the timeout of zero
InitBuilt(b, used, platforms) == InitSet(b, used, platforms, to_unsigned_int(0))

\* the same for the POSIX build
InitWith(b, used) == InitBuilt(b, used, {"posix"})

\* a thread starts a call of method op with arguments c
Begin(t, op, c, first) ==
    /\ ~crashed
    /\ pc[t] = "idle"
    /\ budget[op] > 0
    \* a method is called on an object that exists, a constructor for one
    \* that does not
    /\ obj[c.s] = (IF op = "construct" THEN "none" ELSE "alive")
    /\ budget' = [budget EXCEPT ![op] = @ - 1]
    /\ call' = [call EXCEPT ![t] = [c EXCEPT !.by = t]]
    /\ pc' = [pc EXCEPT ![t] = first]
    /\ UNCHANGED ret

\* a call ends: the thread is idle again and r is how the call ended
End(t, r) ==
    /\ pc' = [pc EXCEPT ![t] = "idle"]
    /\ ret' = [ret EXCEPT ![t] = r]
    /\ call' = [call EXCEPT ![t] = NoCall]
    /\ UNCHANGED budget

Goto(t, label) ==
    /\ pc' = [pc EXCEPT ![t] = label]
    /\ UNCHANGED <<ret, budget>>

\* the result record of the call c of thread t
RetOf(c) == [NoRet EXCEPT !.op = c.op, !.by = c.by, !.s = c.s, !.form = c.form, !.k = c.k, !.cap = c.cap]
\* throw errors::<kind>(msg); code is the number std::to_string put in msg
Throw(c, kind, msg, code) ==
    [RetOf(c) EXCEPT !.thrown = TRUE, !.kind = kind, !.msg = msg, !.code = code]

\* std::unique_lock<std::mutex> lock(m): blocks until m is free
Lock(m, s, t) == m[s] = NoThread /\ m' = [m EXCEPT ![s] = t]
\* destructor of the unique_lock
Unlock(m, s) == m' = [m EXCEPT ![s] = NoThread]

At(t, label) == ~crashed /\ pc[t] = label

(***************************************************************************)
(* receive, vector form (receive<T>) and pointer form                      *)
(***************************************************************************)
\* std::vector<T>(std::ceil(receive_size / sizeof(T))): the division is an
\* integer division, so ceil has nothing left to round up
vector_count(receive_size, k) == receive_size \div k

\* receive_result testing for ETIMEDOUT (110) where POSIX reports EAGAIN
receive_result_etimedout(c, receive_size, error_code, buffer) ==
    IF receive_size = -1
    THEN IF error_code = 110
         THEN [RetOf(c) EXCEPT !.value = 0, !.out = <<>>]
         ELSE Throw(c, RECEIVE_ERROR, "to_string(error_code)", error_code)
    ELSE IF c.form = "vector"
         THEN [RetOf(c) EXCEPT !.value = receive_size \div c.k,
                               !.out = ToElems(SubSeq(buffer, 1, (receive_size \div c.k) * c.k), c.k),
                               !.overflow = receive_size > (receive_size \div c.k) * c.k]
         ELSE [RetOf(c) EXCEPT !.value = receive_size, !.out = buffer]

\* receive_result taking an interrupted recv (EINTR) for a timeout as well
receive_result_eintr(c, receive_size, error_code, buffer) ==
    IF receive_size = -1
    THEN IF error_code = EAGAIN \/ error_code = EWOULDBLOCK \/ error_code = EINTR
         THEN [RetOf(c) EXCEPT !.value = 0, !.out = <<>>]
         ELSE Throw(c, RECEIVE_ERROR, "to_string(error_code)", error_code)
    ELSE IF c.form = "vector"
         THEN LET n == vector_count(receive_size, c.k)
              IN [RetOf(c) EXCEPT !.value = n,
                                  !.out = ToElems(SubSeq(buffer, 1, Min(n * c.k, receive_size)), c.k),
                                  !.overflow = receive_size > n * c.k]
         ELSE [RetOf(c) EXCEPT !.value = receive_size, !.out = buffer]

\* the codes receive takes for a timeout: WSAETIMEDOUT under _WIN32, EAGAIN
\* and EWOULDBLOCK otherwise
timeout_codes == IF os = "windows" THEN {WSAETIMEDOUT} ELSE {EAGAIN, EWOULDBLOCK}

\* what receive returns or throws once recv has returned receive_size, with
\* errno error_code and the received bytes in buffer
receive_result(c, receive_size, error_code, buffer) ==
    IF receive_size = -1
    THEN IF error_code \in timeout_codes
         THEN [RetOf(c) EXCEPT !.value = 0, !.out = <<>>]
         ELSE Throw(c, RECEIVE_ERROR, "to_string(error_code)", error_code)
    ELSE IF c.form = "vector"
         THEN LET n == vector_count(receive_size, c.k)
              IN [RetOf(c) EXCEPT !.value = n,
                                  !.out = ToElems(SubSeq(buffer, 1, Min(n * c.k, receive_size)), c.k),
                                  !.overflow = receive_size > n * c.k]
         ELSE [RetOf(c) EXCEPT !.value = receive_size, !.out = buffer]

CallReceive(t, d) ==
    /\ \E s \in d.recvSocks, f \in d.recvForms, cap \in d.caps :
          Begin(t, "receive", [NoCall EXCEPT !.op = "receive", !.s = s, !.form = f.form,
                                             !.k = f.k, !.cap = cap], "r_lock")
    /\ UNCHANGED <<remoteVars, lockVars, so_rcvtimeo, netVars, histVars, crashed, lifeVars>>

\* ReceiveLock taking the mutex without waiting for it
ReceiveLock_nowait(t) ==
    /\ At(t, "r_lock")
    /\ receive_mutex' = [receive_mutex EXCEPT ![call[t].s] = t]
    /\ Goto(t, "r_recv")
    /\ UNCHANGED <<call, remoteVars, member_mutex, send_mutex, so_rcvtimeo, netVars, histVars, crashed, lifeVars>>

ReceiveLock(t) ==
    /\ At(t, "r_lock")
    /\ Lock(receive_mutex, call[t].s, t)
    /\ Goto(t, "r_recv")
    /\ UNCHANGED <<call, remoteVars, member_mutex, send_mutex, so_rcvtimeo, netVars, histVars, crashed, lifeVars>>

\* ReceiveDatagram with recv leaving the datagram queued (MSG_PEEK)
ReceiveDatagram_peek(t) ==
    /\ At(t, "r_recv")
    /\ LET c == call[t]
           s == c.s
       IN /\ rxq[s] # <<>>
          /\ LET g == Head(rxq[s])
                 buffer == recv_copy(g.data, c.cap)
                 r == [receive_result(c, Len(buffer), 0, buffer)
                          EXCEPT !.platform = "datagram", !.dgram = g]
             IN /\ consumed' = Append(consumed, r)
                /\ Unlock(receive_mutex, s)
                /\ End(t, r)
    /\ UNCHANGED <<remoteVars, member_mutex, send_mutex, so_rcvtimeo, rxq, wire, nextId, histVars, crashed, lifeVars>>

\* Winsock's recv fails with WSAEMSGSIZE when the datagram is longer than
\* the buffer (the datagram is taken off the queue all the same); the POSIX
\* recv returns the bytes that fit
recv_emsgsize(data, buffer_size) == os = "windows" /\ Len(data) > buffer_size

\* recv takes the oldest queued datagram
ReceiveDatagram(t) ==
    /\ At(t, "r_recv")
    /\ LET c == call[t]
           s == c.s
       IN /\ rxq[s] # <<>>
          /\ LET g == Head(rxq[s])
                 buffer == recv_copy(g.data, c.cap)
                 r == IF recv_emsgsize(g.data, c.cap)
                      THEN [receive_result(c, -1, WSAEMSGSIZE, <<>>)
                               EXCEPT !.platform = "failure", !.errno = WSAEMSGSIZE, !.dgram = g]
                      ELSE [receive_result(c, Len(buffer), 0, buffer)
                               EXCEPT !.platform = "datagram", !.dgram = g]
             IN /\ rxq' = [rxq EXCEPT ![s] = Tail(@)]
                /\ consumed' = Append(consumed, r)
                \* memcpy past the end of the vector: the process may die
                /\ \E die \in IF r.overflow THEN BOOLEAN ELSE {FALSE} :
                      IF die
                      THEN /\ crashed' = TRUE
                           /\ UNCHANGED <<threadVars, receive_mutex>>
                      ELSE /\ crashed' = crashed
                           /\ Unlock(receive_mutex, s)
                           /\ End(t, r)
    /\ UNCHANGED <<remoteVars, member_mutex, send_mutex, so_rcvtimeo, wire, nextId, histVars, lifeVars>>

\* the code a recv that timed out leaves in errno / WSAGetLastError()
recv_timeout_errno == IF os = "windows" THEN WSAETIMEDOUT ELSE EAGAIN

\* ReceiveTimeout returning with receive_mutex still held
ReceiveTimeout_holds_lock(t) ==
    /\ At(t, "r_recv")
    /\ LET c == call[t]
       IN /\ rxq[c.s] = <<>>
          /\ ~Blocking(so_rcvtimeo[c.s])
          /\ End(t, [receive_result(c, -1, recv_timeout_errno, <<>>)
                        EXCEPT !.platform = "timeout", !.errno = recv_timeout_errno])
    /\ UNCHANGED <<remoteVars, lockVars, so_rcvtimeo, netVars, histVars, crashed, lifeVars>>

\* recv returns -1 with the timeout code: SO_RCVTIMEO elapsed with nothing
\* queued
ReceiveTimeout(t) ==
    /\ At(t, "r_recv")
    /\ LET c == call[t]
       IN /\ rxq[c.s] = <<>>
          /\ ~Blocking(so_rcvtimeo[c.s])
          /\ Unlock(receive_mutex, c.s)
          /\ End(t, [receive_result(c, -1, recv_timeout_errno, <<>>)
                        EXCEPT !.platform = "timeout", !.errno = recv_timeout_errno])
    /\ UNCHANGED <<remoteVars, member_mutex, send_mutex, so_rcvtimeo, netVars, histVars, crashed, lifeVars>>

\* the errno values of a failing recv: once the descriptor is closed, a recv
\* entered after the close fails with EBADF
recv_errnos(s) == IF Open(s) THEN RecvErrnos ELSE RecvErrnos \cup {EBADF}

\* recv returns -1 with another errno
ReceiveFailure(t) ==
    /\ At(t, "r_recv")
    /\ \E e \in recv_errnos(call[t].s) :
          /\ Unlock(receive_mutex, call[t].s)
          /\ End(t, [receive_result(call[t], -1, e, <<>>) EXCEPT !.platform = "failure", !.errno = e])
    /\ UNCHANGED <<remoteVars, member_mutex, send_mutex, so_rcvtimeo, netVars, histVars, crashed, lifeVars>>

(***************************************************************************)
(* class UDPSocket of include/UDPSocket.hpp: receive                       *)
(***************************************************************************)
\* std::runtime_error, the one exception type UDPSocket throws
RUNTIME_ERROR == 4
ETIMEDOUT == 110
\* the codes UDPSocket::receive takes for a timeout: WSAETIMEDOUT under
\* _WIN32, ETIMEDOUT otherwise
UDPSocket_timeout_codes == IF os = "windows" THEN {WSAETIMEDOUT} ELSE {ETIMEDOUT}

\* what UDPSocket::receive returns or throws once recv has returned
\* receive_size with errno error_code: std::vector<char>(receive_size)
\* filled from the buffer, the empty vector, or runtime_error
UDPSocket_receive_result(c, receive_size, error_code, buffer) ==
    IF receive_size = -1
    THEN IF error_code \in UDPSocket_timeout_codes
         THEN [RetOf(c) EXCEPT !.value = 0, !.out = <<>>]
         ELSE Throw(c, RUNTIME_ERROR,
                    "An error occured while receiving data: to_string(error_code)", error_code)
    ELSE [RetOf(c) EXCEPT !.value = receive_size, !.out = ToElems(buffer, 1)]

\* recv of UDPSocket::receive, under receive_mutex: it takes the oldest
\* queued datagram, or it times out when nothing is queued and SO_RCVTIMEO
\* is not zero, or it fails
UDPSocketReceive(t) ==
    /\ At(t, "r_recv")
    /\ LET c == call[t]
           s == c.s
       IN /\ \E r \in
                (IF rxq[s] # <<>>
                 THEN LET g == Head(rxq[s])
                          buffer == recv_copy(g.data, c.cap)
                      IN {IF recv_emsgsize(g.data, c.cap)
                          THEN [UDPSocket_receive_result(c, -1, WSAEMSGSIZE, <<>>)
                                   EXCEPT !.platform = "failure", !.errno = WSAEMSGSIZE, !.dgram = g]
                          ELSE [UDPSocket_receive_result(c, Len(buffer), 0, buffer)
                                   EXCEPT !.platform = "datagram", !.dgram = g]}
                 ELSE IF ~Blocking(so_rcvtimeo[s])
                 THEN {[UDPSocket_receive_result(c, -1, recv_timeout_errno, <<>>)
                           EXCEPT !.platform = "timeout", !.errno = recv_timeout_errno]}
                 ELSE {})
                \cup {[UDPSocket_receive_result(c, -1, e, <<>>)
                          EXCEPT !.platform = "failure", !.errno = e] : e \in recv_errnos(s)} :
                /\ rxq' = IF r.dgram # NoDgram THEN [rxq EXCEPT ![s] = Tail(@)] ELSE rxq
                /\ consumed' = IF r.dgram # NoDgram THEN Append(consumed, r) ELSE consumed
                /\ End(t, r)
          /\ Unlock(receive_mutex, s)
    /\ UNCHANGED <<remoteVars, member_mutex, send_mutex, so_rcvtimeo, wire, nextId, histVars, crashed, lifeVars>>

(***************************************************************************)
(* send_to and send, vector and pointer forms                              *)
(***************************************************************************)
\* the datagram sendto(fd, bytes, len, 0, sa) queues for transmission
Datagram(c, sa) == [id |-> nextId, src |-> c.s, dst |-> sendto_dest(sa), data |-> BytesOf(c)]

\* what sendto can do: 0 for the datagram queued, or the errno of a failure;
\* on a closed descriptor it fails with EBADF
sendto_outcomes(s) == IF Open(s) THEN {0} \cup SendErrnos ELSE {EBADF}

\* send_result handing the -1 of sendto back to the caller
send_result_returns(c, result, error_code) ==
    [RetOf(c) EXCEPT !.value = result, !.code = error_code]

\* what send and send_to return or throw once sendto has returned result
\* with errno error_code
send_result(c, result, error_code) ==
    IF result = -1
    THEN Throw(c, SEND_ERROR, "to_string(error_code)", error_code)
    ELSE [RetOf(c) EXCEPT !.value = result]

\* the sendto call itself: the whole datagram is queued and its length is
\* returned, or nothing is queued and -1 is returned with errno e
Transmit(t, sa, e) ==
    LET c == call[t]
        g == Datagram(c, sa)
    IN IF e = 0
       THEN /\ wire' = wire \cup {g}
            /\ nextId' = nextId + 1
            /\ End(t, [send_result(c, Len(g.data), 0)
                          EXCEPT !.platform = "sent", !.sent = g, !.buf = c.buf])
       ELSE /\ UNCHANGED <<wire, nextId>>
            /\ End(t, [send_result(c, -1, e) EXCEPT !.platform = "failure", !.buf = c.buf, !.errno = e])

CallSendTo(t, d) ==
    /\ \E s \in d.sendSocks, b \in d.sendBufs, port \in d.ports, addr \in d.addrs :
          Begin(t, "send_to", [NoCall EXCEPT !.op = "send_to", !.s = s, !.form = b.form, !.k = b.k,
                                             !.buf = b.buf, !.port = port, !.addr = addr], "st_lock")
    /\ UNCHANGED <<remoteVars, lockVars, so_rcvtimeo, netVars, histVars, crashed, lifeVars>>

\* SendToLock taking the mutex without waiting for it
SendToLock_nowait(t) ==
    /\ At(t, "st_lock")
    /\ send_mutex' = [send_mutex EXCEPT ![call[t].s] = t]
    /\ Goto(t, "st_addr")
    /\ UNCHANGED <<call, remoteVars, member_mutex, receive_mutex, so_rcvtimeo, netVars, histVars, crashed, lifeVars>>

\* SendToLock with one mutex for both directions: it takes receive_mutex
SendToLock_receive_mutex(t) ==
    /\ At(t, "st_lock")
    /\ Lock(receive_mutex, call[t].s, t)
    /\ Goto(t, "st_addr")
    /\ UNCHANGED <<call, remoteVars, member_mutex, send_mutex, so_rcvtimeo, netVars, histVars, crashed, lifeVars>>

\* SendToLock taking the general lock first, as send does
SendToLock_member_mutex(t) ==
    /\ At(t, "st_lock")
    /\ Lock(member_mutex, call[t].s, t)
    /\ Lock(send_mutex, call[t].s, t)
    /\ Goto(t, "st_addr")
    /\ UNCHANGED <<call, remoteVars, receive_mutex, so_rcvtimeo, netVars, histVars, crashed, lifeVars>>

SendToLock(t) ==
    /\ At(t, "st_lock")
    /\ Lock(send_mutex, call[t].s, t)
    /\ Goto(t, "st_addr")
    /\ UNCHANGED <<call, remoteVars, member_mutex, receive_mutex, so_rcvtimeo, netVars, histVars, crashed, lifeVars>>

\* SendToAddress leaving with the lock held when the address does not parse
SendToAddress_keeps_lock(t) ==
    /\ At(t, "st_addr")
    /\ LET c == call[t]
       IN IF inet_pton_ok(c.addr)
          THEN /\ call' = [call EXCEPT ![t].address_struct =
                              [sin_family |-> AF_INET, sin_port |-> htons(c.port),
                               sin_addr |-> inet_pton_value(c.addr)]]
               /\ Goto(t, "st_sendto")
          ELSE End(t, Throw(c, SEND_ERROR, "Provided address was invalid.", 0))
    /\ UNCHANGED <<remoteVars, lockVars, so_rcvtimeo, netVars, histVars, crashed, lifeVars>>

\* fill address_struct; throw when the address does not parse
SendToAddress(t) ==
    /\ At(t, "st_addr")
    /\ LET c == call[t]
       IN IF inet_pton_ok(c.addr)
          THEN /\ call' = [call EXCEPT ![t].address_struct =
                              [sin_family |-> AF_INET, sin_port |-> htons(c.port),
                               sin_addr |-> inet_pton_value(c.addr)]]
               /\ Goto(t, "st_sendto")
               /\ UNCHANGED send_mutex
          ELSE /\ Unlock(send_mutex, c.s)
               /\ End(t, Throw(c, SEND_ERROR, "Provided address was invalid.", 0))
    /\ UNCHANGED <<remoteVars, member_mutex, receive_mutex, so_rcvtimeo, netVars, histVars, crashed, lifeVars>>

\* SendToTransmit keeping the destination as the configured remote host
SendToTransmit_remembers(t) ==
    /\ At(t, "st_sendto")
    /\ \E e \in sendto_outcomes(call[t].s) : Transmit(t, call[t].address_struct, e)
    /\ Unlock(send_mutex, call[t].s)
    /\ remote_address' = [remote_address EXCEPT ![call[t].s] = call[t].address_struct]
    /\ remote_address_set' = [remote_address_set EXCEPT ![call[t].s] = TRUE]
    /\ UNCHANGED <<member_mutex, receive_mutex, so_rcvtimeo, rxq, consumed, histVars, crashed, lifeVars>>

SendToTransmit(t) ==
    /\ At(t, "st_sendto")
    /\ \E e \in sendto_outcomes(call[t].s) : Transmit(t, call[t].address_struct, e)
    /\ Unlock(send_mutex, call[t].s)
    /\ UNCHANGED <<remoteVars, member_mutex, receive_mutex, so_rcvtimeo, rxq, consumed, histVars, crashed, lifeVars>>

CallSend(t, d) ==
    /\ \E s \in d.sendSocks, b \in d.sendBufs :
          Begin(t, "send", [NoCall EXCEPT !.op = "send", !.s = s, !.form = b.form, !.k = b.k,
                                          !.buf = b.buf], "s_lock_m")
    /\ UNCHANGED <<remoteVars, lockVars, so_rcvtimeo, netVars, histVars, crashed, lifeVars>>

\* SendLockMember left out: send runs under the send-path lock alone
SendLockMember_skipped(t) ==
    /\ At(t, "s_lock_m")
    /\ Goto(t, "s_lock_s")
    /\ UNCHANGED <<call, remoteVars, lockVars, so_rcvtimeo, netVars, histVars, crashed, lifeVars>>

\* SendLockMember taking the send-path lock where send takes the general
\* lock
SendLockMember_send_first(t) ==
    /\ At(t, "s_lock_m")
    /\ Lock(send_mutex, call[t].s, t)
    /\ Goto(t, "s_lock_s")
    /\ UNCHANGED <<call, remoteVars, member_mutex, receive_mutex, so_rcvtimeo, netVars, histVars, crashed, lifeVars>>

SendLockMember(t) ==
    /\ At(t, "s_lock_m")
    /\ Lock(member_mutex, call[t].s, t)
    /\ Goto(t, "s_lock_s")
    /\ UNCHANGED <<call, remoteVars, send_mutex, receive_mutex, so_rcvtimeo, netVars, histVars, crashed, lifeVars>>

SendLockSend(t) ==
    /\ At(t, "s_lock_s")
    /\ Lock(send_mutex, call[t].s, t)
    /\ Goto(t, "s_check")
    /\ UNCHANGED <<call, remoteVars, member_mutex, receive_mutex, so_rcvtimeo, netVars, histVars, crashed, lifeVars>>

\* SendCheck without the test of remote_address_set
SendCheck_unchecked(t) ==
    /\ At(t, "s_check")
    /\ Goto(t, "s_sendto")
    /\ UNCHANGED <<call, remoteVars, lockVars, so_rcvtimeo, netVars, histVars, crashed, lifeVars>>

\* if (remote_address_set) ... else throw
SendCheck(t) ==
    /\ At(t, "s_check")
    /\ LET c == call[t]
       IN IF remote_address_set[c.s]
          THEN /\ Goto(t, "s_sendto")
               /\ UNCHANGED <<call, member_mutex, send_mutex>>
          ELSE /\ Unlock(send_mutex, c.s)
               /\ Unlock(member_mutex, c.s)
               /\ End(t, Throw(c, SEND_ERROR, "Remote host address and port has not been set.", 0))
    /\ UNCHANGED <<remoteVars, receive_mutex, so_rcvtimeo, netVars, histVars, crashed, lifeVars>>

SendTransmit(t) ==
    /\ At(t, "s_sendto")
    /\ \E e \in sendto_outcomes(call[t].s) : Transmit(t, remote_address[call[t].s], e)
    /\ Unlock(send_mutex, call[t].s)
    /\ Unlock(member_mutex, call[t].s)
    /\ UNCHANGED <<remoteVars, receive_mutex, so_rcvtimeo, rxq, consumed, histVars, crashed, lifeVars>>

(***************************************************************************)
(* configure_remote_host and set_socket_receive_timeout                    *)
(***************************************************************************)
CallConfigure(t, d) ==
    /\ \E s \in d.sendSocks, port \in d.ports, addr \in d.addrs :
          Begin(t, "configure_remote_host",
                [NoCall EXCEPT !.op = "configure_remote_host", !.s = s, !.port = port,
                               !.addr = addr], "c_lock")
    /\ UNCHANGED <<remoteVars, lockVars, so_rcvtimeo, netVars, histVars, crashed, lifeVars>>

\* call[t].before, before_set: the configuration found when the lock is taken
ConfigureLock(t) ==
    /\ At(t, "c_lock")
    /\ Lock(member_mutex, call[t].s, t)
    /\ call' = [call EXCEPT ![t].before = remote_address[call[t].s],
                            ![t].before_set = remote_address_set[call[t].s]]
    /\ Goto(t, "c_port")
    /\ UNCHANGED <<remoteVars, send_mutex, receive_mutex, so_rcvtimeo, netVars, histVars, crashed, lifeVars>>

\* ConfigurePort storing the port in host byte order
ConfigurePort_no_htons(t) ==
    /\ At(t, "c_port")
    /\ remote_address' = [remote_address EXCEPT ![call[t].s].sin_family = AF_INET,
                                                ![call[t].s].sin_port = call[t].port]
    /\ Goto(t, "c_addr")
    /\ UNCHANGED <<call, remote_address_set, lockVars, so_rcvtimeo, netVars, histVars, crashed, lifeVars>>

\* remote_address.sin_family = AF_INET; remote_address.sin_port = htons(port)
ConfigurePort(t) ==
    /\ At(t, "c_port")
    /\ remote_address' = [remote_address EXCEPT ![call[t].s].sin_family = AF_INET,
                                                ![call[t].s].sin_port = htons(call[t].port)]
    /\ Goto(t, "c_addr")
    /\ UNCHANGED <<call, remote_address_set, lockVars, so_rcvtimeo, netVars, histVars, crashed, lifeVars>>

\* ConfigureAddress marking the configuration invalid when the address does
\* not parse
ConfigureAddress_clears_flag(t) ==
    /\ At(t, "c_addr")
    /\ LET c == call[t]
           s == c.s
       IN IF inet_pton_ok(c.addr)
          THEN /\ remote_address' = [remote_address EXCEPT ![s].sin_addr = inet_pton_value(c.addr)]
               /\ Goto(t, "c_set")
               /\ UNCHANGED <<call, member_mutex, lastCfg, remote_address_set>>
          ELSE /\ \E v \in inet_pton_failed_dst(c.addr, remote_address[s].sin_addr) :
                     remote_address' = [remote_address EXCEPT ![s].sin_addr = v]
               /\ remote_address_set' = [remote_address_set EXCEPT ![s] = FALSE]
               /\ Unlock(member_mutex, s)
               /\ lastCfg' = [lastCfg EXCEPT ![s] = [ended |-> TRUE, ok |-> FALSE,
                                                      port |-> c.port, addr |-> c.addr]]
               /\ End(t, Throw(c, CONFIGURATION_ERROR, "Provided address was invalid.", 0))
    /\ UNCHANGED <<send_mutex, receive_mutex, so_rcvtimeo, netVars, cfgOK, lastTimeout, crashed, lifeVars>>

\* inet_pton into remote_address.sin_addr; throw when it does not return 1
ConfigureAddress(t) ==
    /\ At(t, "c_addr")
    /\ LET c == call[t]
           s == c.s
       IN IF inet_pton_ok(c.addr)
          THEN /\ remote_address' = [remote_address EXCEPT ![s].sin_addr = inet_pton_value(c.addr)]
               /\ Goto(t, "c_set")
               /\ UNCHANGED <<call, member_mutex, lastCfg>>
          ELSE /\ \E v \in inet_pton_failed_dst(c.addr, remote_address[s].sin_addr) :
                     remote_address' = [remote_address EXCEPT ![s].sin_addr = v]
               /\ Unlock(member_mutex, s)
               /\ lastCfg' = [lastCfg EXCEPT ![s] = [ended |-> TRUE, ok |-> FALSE,
                                                      port |-> c.port, addr |-> c.addr]]
               /\ End(t, Throw(c, CONFIGURATION_ERROR, "Provided address was invalid.", 0))
    /\ UNCHANGED <<remote_address_set, send_mutex, receive_mutex, so_rcvtimeo, netVars, cfgOK, lastTimeout, crashed, lifeVars>>

\* remote_address_set = true, and return
ConfigureSet(t) ==
    /\ At(t, "c_set")
    /\ LET c == call[t]
           s == c.s
       IN /\ remote_address_set' = [remote_address_set EXCEPT ![s] = TRUE]
          /\ Unlock(member_mutex, s)
          /\ lastCfg' = [lastCfg EXCEPT ![s] = [ended |-> TRUE, ok |-> TRUE,
                                                 port |-> c.port, addr |-> c.addr]]
          /\ cfgOK' = [cfgOK EXCEPT ![s] = @ \cup {[port |-> c.port, addr |-> c.addr]}]
          /\ End(t, RetOf(c))
    /\ UNCHANGED <<remote_address, send_mutex, receive_mutex, so_rcvtimeo, netVars, lastTimeout, crashed, lifeVars>>

\* SetTimeout serialised with receive: it waits for receive_mutex
SetTimeout_receive_mutex(t, d) ==
    /\ At(t, "idle")
    /\ budget["set_socket_receive_timeout"] > 0
    /\ budget' = [budget EXCEPT !["set_socket_receive_timeout"] = @ - 1]
    /\ \E s \in d.recvSocks, ms \in d.timeouts, e \in {0} \cup SetsockoptErrnos :
          /\ obj[s] = "alive"
          /\ receive_mutex[s] = NoThread
          /\ LET c == [NoCall EXCEPT !.op = "set_socket_receive_timeout", !.by = t, !.s = s, !.ms = ms]
             IN IF e = 0
                THEN /\ so_rcvtimeo' = [so_rcvtimeo EXCEPT ![s] = timeout_struct(ms)]
                     /\ lastTimeout' = [lastTimeout EXCEPT ![s] = ms]
                     /\ ret' = [ret EXCEPT ![t] = RetOf(c)]
                ELSE /\ UNCHANGED <<so_rcvtimeo, lastTimeout>>
                     /\ ret' = [ret EXCEPT ![t] =
                                  Throw(c, CONFIGURATION_ERROR,
                                        "An error occurred while setting the receive timeout: to_string(errno)", e)]
    /\ UNCHANGED <<pc, call, remoteVars, lockVars, netVars, lastCfg, cfgOK, crashed, lifeVars>>

\* set_socket_receive_timeout takes no lock and makes one setsockopt call
SetTimeout(t, d) ==
    /\ At(t, "idle")
    /\ budget["set_socket_receive_timeout"] > 0
    /\ budget' = [budget EXCEPT !["set_socket_receive_timeout"] = @ - 1]
    /\ \E s \in d.recvSocks, ms \in d.timeouts, e \in {0} \cup SetsockoptErrnos :
          /\ obj[s] = "alive"
          /\ LET c == [NoCall EXCEPT !.op = "set_socket_receive_timeout", !.by = t, !.s = s, !.ms = ms]
             IN IF e = 0
                THEN /\ so_rcvtimeo' = [so_rcvtimeo EXCEPT ![s] = timeout_struct(ms)]
                     /\ lastTimeout' = [lastTimeout EXCEPT ![s] = ms]
                     /\ ret' = [ret EXCEPT ![t] = RetOf(c)]
                ELSE /\ UNCHANGED <<so_rcvtimeo, lastTimeout>>
                     /\ ret' = [ret EXCEPT ![t] =
                                  Throw(c, CONFIGURATION_ERROR,
                                        "An error occurred while setting the receive timeout: to_string(errno)", e)]
    /\ UNCHANGED <<pc, call, remoteVars, lockVars, netVars, lastCfg, cfgOK, crashed, lifeVars>>

\* get_socket_file_descriptor: return socket_file_descriptor, no lock taken
GetDescriptor(t, d) ==
    /\ At(t, "idle")
    /\ budget["get_socket_file_descriptor"] > 0
    /\ budget' = [budget EXCEPT !["get_socket_file_descriptor"] = @ - 1]
    /\ \E s \in d.recvSocks :
          /\ obj[s] = "alive"
          /\ ret' = [ret EXCEPT ![t] =
                       [RetOf([NoCall EXCEPT !.op = "get_socket_file_descriptor", !.by = t, !.s = s])
                           EXCEPT !.out = socket_file_descriptor[s]]]
    /\ UNCHANGED <<pc, call, remoteVars, lockVars, so_rcvtimeo, netVars, histVars, crashed, lifeVars>>

(***************************************************************************)
(* The constructor and the destructor                                      *)
(***************************************************************************)
NoBinding == [addr |-> INADDR_ANY, port |-> 0]

CallConstruct(t, d) ==
    /\ \E s \in d.endpoints, port \in d.bindPorts, addr \in d.bindAddrs :
          /\ Begin(t, "construct", [NoCall EXCEPT !.op = "construct", !.s = s, !.port = port,
                                                  !.addr = addr], "k_start")
          /\ obj' = [obj EXCEPT ![s] = "constructing"]
    /\ UNCHANGED <<remoteVars, lockVars, so_rcvtimeo, netVars, histVars, crashed>>
    /\ UNCHANGED <<os, wsa_startups, socket_file_descriptor, local_address, open_fds, sockopts, bound>>

\* local_sockaddr with the port stored in host byte order
local_sockaddr_no_htons(port, sin_addr) ==
    [sin_family |-> AF_INET, sin_port |-> port, sin_addr |-> sin_addr]

\* local_address.sin_family = AF_INET; local_address.sin_port = htons(port);
\* local_address.sin_addr.s_addr = sin_addr
local_sockaddr(port, sin_addr) ==
    [sin_family |-> AF_INET, sin_port |-> htons(port), sin_addr |-> sin_addr]

\* invalid_local_address throwing what configure_remote_host throws
invalid_local_address_configuration(c) ==
    Throw(c, CONFIGURATION_ERROR, "Provided address was invalid.", 0)

\* throw errors::initialization_error("Provided address was invalid.")
invalid_local_address(c) ==
    Throw(c, INITIALIZATION_ERROR, "Provided address was invalid.", 0)

\* an exception leaves the constructor: there is no object
ConstructThrow(t, r) ==
    /\ obj' = [obj EXCEPT ![call[t].s] = "none"]
    /\ End(t, r)

\* on _WIN32 initialize_windows_sockets, which calls WSAStartup; then
\* remote_address_set = false and local_address from the arguments
ConstructStart(t) ==
    /\ At(t, "k_start")
    /\ LET c == call[t]
           s == c.s
       IN \E err \in IF os = "windows" THEN {0, WSASYSNOTREADY} ELSE {0} :
             /\ wsa_startups' = IF os = "windows" THEN wsa_startups + 1 ELSE wsa_startups
             /\ IF err # 0
                \* "WSAStartup failed with error: " + WSAGetLastError() moves the
                \* pointer past the literal: the message is whatever lies there,
                \* or the read kills the process
                THEN /\ \E die \in BOOLEAN :
                          IF die
                          THEN crashed' = TRUE /\ UNCHANGED <<threadVars, obj>>
                          ELSE /\ crashed' = crashed
                               /\ ConstructThrow(t, [Throw(c, INITIALIZATION_ERROR, "(unspecified bytes)", err)
                                                       EXCEPT !.platform = "WSAStartup"])
                     /\ UNCHANGED <<remote_address_set, local_address>>
                ELSE /\ crashed' = crashed
                     /\ remote_address_set' = [remote_address_set EXCEPT ![s] = FALSE]
                     /\ IF c.addr = EmptyAddress \/ inet_pton_ok(c.addr)
                        THEN /\ local_address' = [local_address EXCEPT ![s] =
                                    local_sockaddr(c.port, IF c.addr = EmptyAddress THEN INADDR_ANY
                                                           ELSE inet_pton_value(c.addr))]
                             /\ Goto(t, "k_socket")
                             /\ UNCHANGED <<call, obj>>
                        ELSE /\ \E v \in inet_pton_failed_dst(c.addr, local_address[s].sin_addr) :
                                   local_address' = [local_address EXCEPT ![s] = local_sockaddr(c.port, v)]
                             /\ ConstructThrow(t, invalid_local_address(c))
    /\ UNCHANGED <<remote_address, lockVars, so_rcvtimeo, netVars, histVars>>
    /\ UNCHANGED <<os, socket_file_descriptor, open_fds, sockopts, bound>>

\* socket_file_descriptor = socket(AF_INET, SOCK_DGRAM, 0), and the test
\* socket_file_descriptor < 0 on the unsigned member
ConstructSocket(t) ==
    /\ At(t, "k_socket")
    /\ LET c == call[t]
           s == c.s
       IN \E e \in {0} \cup SocketErrnos :
             LET fd == IF e = 0 THEN lowest_free(open_fds) ELSE -1
                 u == to_unsigned_long_long(fd)
             IN /\ socket_file_descriptor' = [socket_file_descriptor EXCEPT ![s] = u]
                /\ IF e = 0
                   THEN /\ open_fds' = open_fds \cup {fd}
                        /\ rxq' = [rxq EXCEPT ![s] = <<>>]
                        /\ so_rcvtimeo' = [so_rcvtimeo EXCEPT ![s] = [tv_sec |-> 0, tv_usec |-> 0]]
                        /\ sockopts' = [sockopts EXCEPT ![s] = {}]
                        /\ bound' = [bound EXCEPT ![s] = NoBinding]
                   ELSE UNCHANGED <<open_fds, rxq, so_rcvtimeo, sockopts, bound>>
                /\ IF unsigned_less(u, to_unsigned_long_long(0))
                   THEN ConstructThrow(t, [Throw(c, INITIALIZATION_ERROR,
                                                 "Could not create socket, failed with error: to_string(errno)", e)
                                             EXCEPT !.platform = "socket"])
                   ELSE Goto(t, "k_opts") /\ UNCHANGED <<call, obj>>
    /\ UNCHANGED <<remoteVars, lockVars, wire, nextId, consumed, histVars, crashed>>
    /\ UNCHANGED <<os, wsa_startups, local_address>>

\* setsockopt SO_REUSEADDR and SO_BROADCAST, results ignored, then
\* set_socket_receive_timeout(0); every setsockopt on a descriptor that is
\* not open fails with EBADF
ConstructOptions(t) ==
    /\ At(t, "k_opts")
    /\ LET c == call[t]
           s == c.s
           valid == to_int(socket_file_descriptor[s]) \in open_fds
       IN /\ sockopts' = IF valid THEN [sockopts EXCEPT ![s] = @ \cup {"SO_REUSEADDR", "SO_BROADCAST"}]
                         ELSE sockopts
          /\ \E e \in IF valid THEN {0} \cup SetsockoptErrnos ELSE {EBADF} :
                IF e = 0
                THEN /\ so_rcvtimeo' = [so_rcvtimeo EXCEPT ![s] = timeout_struct(to_unsigned_int(0))]
                     /\ lastTimeout' = [lastTimeout EXCEPT ![s] = to_unsigned_int(0)]
                     /\ Goto(t, "k_bind")
                     /\ UNCHANGED <<call, obj>>
                ELSE /\ UNCHANGED <<so_rcvtimeo, lastTimeout>>
                     /\ ConstructThrow(t, [Throw(c, CONFIGURATION_ERROR,
                              "An error occurred while setting the receive timeout: to_string(errno)", e)
                              EXCEPT !.platform = "setsockopt"])
    /\ UNCHANGED <<remoteVars, lockVars, netVars, lastCfg, cfgOK, crashed>>
    /\ UNCHANGED <<os, wsa_startups, socket_file_descriptor, local_address, open_fds, bound>>

\* ConstructBind going on when bind has failed
ConstructBind_unchecked(t) ==
    /\ At(t, "k_bind")
    /\ LET c == call[t]
           s == c.s
       IN \E e \in {0} \cup BindErrnos :
             /\ bound' = IF e = 0
                         THEN [bound EXCEPT ![s] = [addr |-> local_address[s].sin_addr,
                                                    port |-> ntohs(local_address[s].sin_port)]]
                         ELSE bound
             /\ obj' = [obj EXCEPT ![s] = "alive"]
             /\ End(t, [RetOf(c) EXCEPT !.platform = IF e = 0 THEN "bound" ELSE "bind"])
    /\ UNCHANGED <<remoteVars, lockVars, so_rcvtimeo, netVars, histVars, crashed>>
    /\ UNCHANGED <<os, wsa_startups, socket_file_descriptor, local_address, open_fds, sockopts>>

\* bind(socket_file_descriptor, &local_address); throw when it fails
ConstructBind(t) ==
    /\ At(t, "k_bind")
    /\ LET c == call[t]
           s == c.s
           port == ntohs(local_address[s].sin_port)
       IN \E e \in {0} \cup BindErrnos :
             IF e = 0
             THEN /\ bound' = [bound EXCEPT ![s] =
                                 [addr |-> local_address[s].sin_addr,
                                  port |-> IF port = 0 THEN EphemeralPort ELSE port]]
                  /\ obj' = [obj EXCEPT ![s] = "alive"]
                  /\ End(t, [RetOf(c) EXCEPT !.platform = "bound"])
             ELSE /\ UNCHANGED bound
                  /\ ConstructThrow(t, [Throw(c, INITIALIZATION_ERROR,
                           "Could not bind socket to local address, failed with error: to_string(errno)", e)
                           EXCEPT !.platform = "bind"])
    /\ UNCHANGED <<remoteVars, lockVars, so_rcvtimeo, netVars, histVars, crashed>>
    /\ UNCHANGED <<os, wsa_startups, socket_file_descriptor, local_address, open_fds, sockopts>>

CallDestroy(t, d) ==
    /\ \E s \in d.endpoints :
          /\ Begin(t, "destroy", [NoCall EXCEPT !.op = "destroy", !.s = s], "d_lock_m")
          /\ obj' = [obj EXCEPT ![s] = "destroying"]
    /\ UNCHANGED <<remoteVars, lockVars, so_rcvtimeo, netVars, histVars, crashed>>
    /\ UNCHANGED <<os, wsa_startups, socket_file_descriptor, local_address, open_fds, sockopts, bound>>

\* std::unique_lock<std::mutex> access_lock(member_mutex)
DestroyLockMember(t) ==
    /\ At(t, "d_lock_m")
    /\ Lock(member_mutex, call[t].s, t)
    /\ Goto(t, "d_lock_s")
    /\ UNCHANGED <<call, remoteVars, send_mutex, receive_mutex, so_rcvtimeo, netVars, histVars, crashed, lifeVars>>

\* DestroyLockSend left out: the destructor closes under the general lock
\* alone
DestroyLockSend_skipped(t) ==
    /\ At(t, "d_lock_s")
    /\ Goto(t, "d_close")
    /\ UNCHANGED <<call, remoteVars, lockVars, so_rcvtimeo, netVars, histVars, crashed, lifeVars>>

\* DestroyLockSend taking the receive-path lock as well
DestroyLockSend_receive_mutex(t) ==
    /\ At(t, "d_lock_s")
    /\ Lock(send_mutex, call[t].s, t)
    /\ Lock(receive_mutex, call[t].s, t)
    /\ Goto(t, "d_close")
    /\ UNCHANGED <<call, remoteVars, member_mutex, so_rcvtimeo, netVars, histVars, crashed, lifeVars>>

\* std::unique_lock<std::mutex> send_lock(send_mutex)
DestroyLockSend(t) ==
    /\ At(t, "d_lock_s")
    /\ Lock(send_mutex, call[t].s, t)
    /\ Goto(t, "d_close")
    /\ UNCHANGED <<call, remoteVars, member_mutex, receive_mutex, so_rcvtimeo, netVars, histVars, crashed, lifeVars>>

\* close(socket_file_descriptor); the two locks are released and the
\* members destroyed
DestroyClose(t) ==
    /\ At(t, "d_close")
    /\ LET c == call[t]
           s == c.s
       IN /\ open_fds' = open_fds \ {to_int(socket_file_descriptor[s])}
          /\ Unlock(send_mutex, s)
          /\ Unlock(member_mutex, s)
          /\ obj' = [obj EXCEPT ![s] = "destroyed"]
          /\ End(t, RetOf(c))
    /\ UNCHANGED <<remoteVars, receive_mutex, so_rcvtimeo, netVars, histVars, crashed>>
    /\ UNCHANGED <<os, wsa_startups, socket_file_descriptor, local_address, sockopts, bound>>

\* a call still running on an object that has been destroyed uses members
\* that no longer exist: the process may be killed
UseAfterDestroy(t) ==
    /\ ~crashed
    /\ pc[t] # "idle"
    /\ obj[call[t].s] = "destroyed"
    /\ crashed' = TRUE
    /\ UNCHANGED <<threadVars, remoteVars, lockVars, so_rcvtimeo, netVars, histVars, lifeVars>>

(***************************************************************************)
(* The network and the kernel                                              *)
(***************************************************************************)
\* the socket of endpoint s exists in the kernel: its descriptor is open, or
\* a recv entered before the close still holds it
SocketLive(s) == Open(s) \/ \E t \in Threads : pc[t] = "r_recv" /\ call[t].s = s
\* the endpoints a datagram is for: those bound to its destination port, if
\* the destination is this host and they are bound to it or to any-address
\* (SO_REUSEADDR lets several sockets bind one port)
Listener(g) ==
    {s \in Sockets : /\ SocketLive(s)
                     /\ bound[s].port # 0 /\ bound[s].port = g.dst.port
                     /\ g.dst.addr = PackAddr(Loopback)
                     /\ bound[s].addr \in {INADDR_ANY, g.dst.addr}}

Deliver ==
    /\ ~crashed
    /\ \E g \in wire : \E s \in Listener(g) :
          /\ wire' = wire \ {g}
          /\ rxq' = [rxq EXCEPT ![s] = Append(@, g)]
    /\ UNCHANGED <<threadVars, remoteVars, lockVars, so_rcvtimeo, nextId, consumed, histVars, crashed, lifeVars>>

\* a datagram from a host that is not modelled arrives at an endpoint
Arrive(d) ==
    /\ ~crashed
    /\ budget["arrive"] > 0
    /\ budget' = [budget EXCEPT !["arrive"] = @ - 1]
    /\ \E s \in d.recvSocks, b \in d.sendBufs :
          /\ SocketLive(s) /\ bound[s].port # 0
          /\ rxq' = [rxq EXCEPT ![s] = Append(@, [id |-> nextId, src |-> "peer",
                        dst |-> [addr |-> PackAddr(Loopback), port |-> bound[s].port],
                        data |-> BytesOf(b)])]
    /\ nextId' = nextId + 1
    /\ UNCHANGED <<pc, call, ret, remoteVars, lockVars, so_rcvtimeo, wire, consumed, histVars, crashed, lifeVars>>

\* UDP gives no delivery guarantee
Lose ==
    /\ ~crashed
    /\ \E g \in wire : wire' = wire \ {g}
    /\ UNCHANGED <<threadVars, remoteVars, lockVars, so_rcvtimeo, rxq, nextId, consumed, histVars, crashed, lifeVars>>

(***************************************************************************)
(* The callers: which arguments they pass, how many calls they make        *)
(***************************************************************************)
SendBufsAll ==
    UNION {{[form |-> "vector", k |-> k, buf |-> v] : v \in VectorsOf(k)} : k \in ElemSizes}
      \cup {[form |-> "pointer", k |-> 1, buf |-> b] : b \in ByteSeqs}
RecvFormsAll ==
    {[form |-> "vector", k |-> k] : k \in ElemSizes} \cup {[form |-> "pointer", k |-> 1]}
\* one buffer of MaxLen bytes with a zero byte in it, in both forms
OneBuf == [i \in 1..MaxLen |-> IF i = MaxLen THEN 0 ELSE 1]
\* two buffers of MaxLen bytes that differ in every byte
TwoBufs == {[form |-> "pointer", k |-> 1, buf |-> OneBuf],
            [form |-> "pointer", k |-> 1, buf |-> [i \in 1..MaxLen |-> 1 - OneBuf[i]]]}
SendBufsFew == {[form |-> "vector", k |-> 1, buf |-> ToElems(OneBuf, 1)],
                [form |-> "pointer", k |-> 1, buf |-> OneBuf]}

Budgeted == Ops \cup {"arrive", "get_socket_file_descriptor"}
NoBudget == [op \in Budgeted |-> 0]

\* every buffer, form and capacity; one send_to and one receive
DomTransfer == [sendSocks |-> {"s2"}, recvSocks |-> {"s1"}, sendBufs |-> SendBufsAll,
                recvForms |-> RecvFormsAll, caps |-> Capacities,
                ports |-> Ports, addrs |-> {Loopback, BadAddress}, timeouts |-> TimeoutsMs]
InitTransfer == InitWith([NoBudget EXCEPT !["send_to"] = 1, !["receive"] = 1], {})
NextTransfer ==
    \/ \E t \in Threads : CallSendTo(t, DomTransfer)
    \/ \E t \in Threads : SendToLock(t)
    \/ \E t \in Threads : SendToAddress(t)
    \/ \E t \in Threads : SendToTransmit(t)
    \/ \E t \in Threads : CallReceive(t, DomTransfer)
    \/ \E t \in Threads : ReceiveLock(t)
    \/ \E t \in Threads : ReceiveDatagram(t)
    \/ \E t \in Threads : ReceiveFailure(t)
    \/ Deliver
    \/ Lose
SpecTransfer == InitTransfer /\ [][NextTransfer]_vars

\* every port and address; configure_remote_host and send calls on one endpoint
DomConfig == [sendSocks |-> {"s2"}, recvSocks |-> {"s1"}, sendBufs |-> SendBufsFew,
              recvForms |-> RecvFormsAll, caps |-> Capacities,
              ports |-> Ports, addrs |-> AddrTexts, timeouts |-> TimeoutsMs]
InitConfig == InitWith([NoBudget EXCEPT !["configure_remote_host"] = MaxConfigures,
                                        !["send"] = MaxSends], {"s2"})
NextConfig ==
    \/ \E t \in Threads : CallConfigure(t, DomConfig)
    \/ \E t \in Threads : ConfigureLock(t)
    \/ \E t \in Threads : ConfigurePort(t)
    \/ \E t \in Threads : ConfigureAddress(t)
    \/ \E t \in Threads : ConfigureSet(t)
    \/ \E t \in Threads : CallSend(t, DomConfig)
    \/ \E t \in Threads : SendLockMember(t)
    \/ \E t \in Threads : SendLockSend(t)
    \/ \E t \in Threads : SendCheck(t)
    \/ \E t \in Threads : SendTransmit(t)
SpecConfig == InitConfig /\ [][NextConfig]_vars

\* one configure_remote_host, one send and one send_to, to every destination
InitEquiv == InitWith([NoBudget EXCEPT !["configure_remote_host"] = 1, !["send"] = 1,
                                       !["send_to"] = 1], {"s2"})
NextEquiv ==
    \/ \E t \in Threads : CallConfigure(t, DomConfig)
    \/ \E t \in Threads : ConfigureLock(t)
    \/ \E t \in Threads : ConfigurePort(t)
    \/ \E t \in Threads : ConfigureAddress(t)
    \/ \E t \in Threads : ConfigureSet(t)
    \/ \E t \in Threads : CallSend(t, DomConfig)
    \/ \E t \in Threads : SendLockMember(t)
    \/ \E t \in Threads : SendLockSend(t)
    \/ \E t \in Threads : SendCheck(t)
    \/ \E t \in Threads : SendTransmit(t)
    \/ \E t \in Threads : CallSendTo(t, DomConfig)
    \/ \E t \in Threads : SendToLock(t)
    \/ \E t \in Threads : SendToAddress(t)
    \/ \E t \in Threads : SendToTransmit(t)
SpecEquiv == InitEquiv /\ [][NextEquiv]_vars

\* concurrent receive calls on one endpoint while datagrams arrive at it
DomReceive == [sendSocks |-> {"s2"}, recvSocks |-> {"s1"}, sendBufs |-> TwoBufs,
               recvForms |-> RecvFormsAll, caps |-> {MaxLen},
               ports |-> {BoundPort("s1")}, addrs |-> {Loopback}, timeouts |-> TimeoutsMs]
InitReceive == InitWith([NoBudget EXCEPT !["receive"] = MaxReceives, !["arrive"] = MaxReceives,
                                         !["set_socket_receive_timeout"] = 1], {})
NextReceive ==
    \/ Arrive(DomReceive)
    \/ \E t \in Threads : CallReceive(t, DomReceive)
    \/ \E t \in Threads : ReceiveLock(t)
    \/ \E t \in Threads : ReceiveDatagram(t)
    \/ \E t \in Threads : ReceiveTimeout(t)
    \/ \E t \in Threads : ReceiveFailure(t)
    \/ \E t \in Threads : SetTimeout(t, DomReceive)
SpecReceive == InitReceive /\ [][NextReceive]_vars

\* both send methods in both forms called concurrently on one endpoint, after
\* or while its remote host is configured
DomSendPath == [sendSocks |-> {"s2"}, recvSocks |-> {"s1"}, sendBufs |-> SendBufsFew,
                recvForms |-> RecvFormsAll, caps |-> Capacities,
                ports |-> {BoundPort("s1")}, addrs |-> {Loopback}, timeouts |-> TimeoutsMs]
InitSendPath == InitWith([NoBudget EXCEPT !["configure_remote_host"] = 1, !["send"] = MaxSends,
                                          !["send_to"] = MaxSends], {"s2"})
NextSendPath ==
    \/ \E t \in Threads : CallConfigure(t, DomSendPath)
    \/ \E t \in Threads : ConfigureLock(t)
    \/ \E t \in Threads : ConfigurePort(t)
    \/ \E t \in Threads : ConfigureAddress(t)
    \/ \E t \in Threads : ConfigureSet(t)
    \/ \E t \in Threads : CallSend(t, DomSendPath)
    \/ \E t \in Threads : SendLockMember(t)
    \/ \E t \in Threads : SendLockSend(t)
    \/ \E t \in Threads : SendCheck(t)
    \/ \E t \in Threads : SendTransmit(t)
    \/ \E t \in Threads : CallSendTo(t, DomSendPath)
    \/ \E t \in Threads : SendToLock(t)
    \/ \E t \in Threads : SendToAddress(t)
    \/ \E t \in Threads : SendToTransmit(t)
SpecSendPath == InitSendPath /\ [][NextSendPath]_vars

\* every method called on one endpoint, once each
DomAll == [sendSocks |-> {"s1"}, recvSocks |-> {"s1"},
           sendBufs |-> SendBufsFew,
           recvForms |-> {[form |-> "pointer", k |-> 1]}, caps |-> {MaxLen},
           ports |-> {BoundPort("s1")}, addrs |-> {Loopback, BadAddress}, timeouts |-> {to_unsigned_int(1500)}]
Init == InitWith([NoBudget EXCEPT !["send_to"] = 1, !["send"] = 1, !["receive"] = 1,
                                  !["configure_remote_host"] = 1,
                                  !["set_socket_receive_timeout"] = 1], {"s1"})
Next ==
    \/ \E t \in Threads : CallSendTo(t, DomAll)
    \/ \E t \in Threads : SendToLock(t)
    \/ \E t \in Threads : SendToAddress(t)
    \/ \E t \in Threads : SendToTransmit(t)
    \/ \E t \in Threads : CallSend(t, DomAll)
    \/ \E t \in Threads : SendLockMember(t)
    \/ \E t \in Threads : SendLockSend(t)
    \/ \E t \in Threads : SendCheck(t)
    \/ \E t \in Threads : SendTransmit(t)
    \/ \E t \in Threads : CallReceive(t, DomAll)
    \/ \E t \in Threads : ReceiveLock(t)
    \/ \E t \in Threads : ReceiveDatagram(t)
    \/ \E t \in Threads : ReceiveTimeout(t)
    \/ \E t \in Threads : ReceiveFailure(t)
    \/ \E t \in Threads : CallConfigure(t, DomAll)
    \/ \E t \in Threads : ConfigureLock(t)
    \/ \E t \in Threads : ConfigurePort(t)
    \/ \E t \in Threads : ConfigureAddress(t)
    \/ \E t \in Threads : ConfigureSet(t)
    \/ \E t \in Threads : SetTimeout(t, DomAll)
    \/ Deliver
    \/ Lose
Spec == Init /\ [][Next]_vars

\* the state of a process that has constructed no endpoint yet: the memory
\* an object will occupy holds anything
InitNothing(b) ==
    /\ pc = [t \in Threads |-> "idle"]
    /\ call = [t \in Threads |-> NoCall]
    /\ ret = [t \in Threads |-> NoRet]
    /\ budget = b
    /\ remote_address = [s \in Sockets |-> NoAddr]
    /\ remote_address_set \in [Sockets -> BOOLEAN]
    /\ member_mutex = [s \in Sockets |-> NoThread]
    /\ send_mutex = [s \in Sockets |-> NoThread]
    /\ receive_mutex = [s \in Sockets |-> NoThread]
    /\ so_rcvtimeo = [s \in Sockets |-> [tv_sec |-> 0, tv_usec |-> 0]]
    /\ rxq = [s \in Sockets |-> <<>>]
    /\ wire = {}
    /\ nextId = 1
    /\ consumed = <<>>
    /\ lastCfg = [s \in Sockets |-> [ended |-> FALSE, ok |-> FALSE, port |-> 0, addr |-> <<>>]]
    /\ cfgOK = [s \in Sockets |-> {}]
    /\ lastTimeout = [s \in Sockets |-> to_unsigned_int(0)]
    /\ crashed = FALSE
    /\ os \in Platforms
    /\ wsa_startups = 0
    /\ obj = [s \in Sockets |-> "none"]
    /\ socket_file_descriptor = [s \in Sockets |-> to_unsigned_long_long(0)]
    /\ local_address = [s \in Sockets |-> NoAddr]
    /\ open_fds = {}
    /\ sockopts = [s \in Sockets |-> {}]
    /\ bound = [s \in Sockets |-> NoBinding]

\* socket(unsigned short port = 0, ...): the ports a constructor is given,
\* the default 0 among them
ConstructPorts == Ports \cup {0}

\* socket(..., std::string address = ""): the addresses a constructor is
\* given: the default "", a dotted quad, and a string inet_pton rejects
ConstructAddrs == {EmptyAddress, Loopback, BadAddress}

\* both endpoints are constructed, concurrently, each by its own thread, with
\* every port and address and every outcome of the platform calls; then the
\* thread of s2 sends a datagram to s1, where the thread of s1 receives
DomConstruct(t) ==
    [endpoints |-> IF t = "t1" THEN {"s1"} ELSE {"s2"},
     bindPorts |-> ConstructPorts,
     bindAddrs |-> ConstructAddrs,
     sendSocks |-> IF t = "t1" THEN {} ELSE {"s2"},
     recvSocks |-> IF t = "t1" THEN {"s1"} ELSE {},
     sendBufs |-> {[form |-> "pointer", k |-> 1, buf |-> OneBuf]},
     recvForms |-> {[form |-> "pointer", k |-> 1]}, caps |-> {MaxLen},
     ports |-> {BoundPort("s1")}, addrs |-> {Loopback}, timeouts |-> {to_unsigned_int(0)}]
InitConstruct == InitNothing([NoBudget EXCEPT !["construct"] = MaxConstructs, !["send_to"] = 1, !["receive"] = 1])
NextConstruct ==
    \/ \E t \in Threads : CallConstruct(t, DomConstruct(t))
    \/ \E t \in Threads : ConstructStart(t)
    \/ \E t \in Threads : ConstructSocket(t)
    \/ \E t \in Threads : ConstructOptions(t)
    \/ \E t \in Threads : ConstructBind(t)
    \/ \E t \in Threads : CallSendTo(t, DomConstruct(t))
    \/ \E t \in Threads : SendToLock(t)
    \/ \E t \in Threads : SendToAddress(t)
    \/ \E t \in Threads : SendToTransmit(t)
    \/ \E t \in Threads : CallReceive(t, DomConstruct(t))
    \/ \E t \in Threads : ReceiveLock(t)
    \/ \E t \in Threads : ReceiveDatagram(t)
    \/ \E t \in Threads : ReceiveFailure(t)
    \/ Deliver
SpecConstruct == InitConstruct /\ [][NextConstruct]_vars

\* the life of one endpoint after its construction: every method is called
\* on it, configure_remote_host more than once, with and without success
DomLife == [endpoints |-> {"s1"}, sendSocks |-> {"s1"}, recvSocks |-> {"s1"},
            sendBufs |-> {[form |-> "pointer", k |-> 1, buf |-> OneBuf]},
            recvForms |-> {[form |-> "pointer", k |-> 1]}, caps |-> {MaxLen},
            ports |-> {BoundPort("s2")}, addrs |-> {Loopback, BadAddress}, timeouts |-> {to_unsigned_int(1500)}]
InitLife == InitWith([NoBudget EXCEPT !["configure_remote_host"] = MaxConfigures, !["send"] = 1,
                                      !["send_to"] = 1, !["receive"] = 1,
                                      !["set_socket_receive_timeout"] = 1], {})
NextLife ==
    \/ \E t \in Threads : CallSendTo(t, DomLife)
    \/ \E t \in Threads : SendToLock(t)
    \/ \E t \in Threads : SendToAddress(t)
    \/ \E t \in Threads : SendToTransmit(t)
    \/ \E t \in Threads : CallSend(t, DomLife)
    \/ \E t \in Threads : SendLockMember(t)
    \/ \E t \in Threads : SendLockSend(t)
    \/ \E t \in Threads : SendCheck(t)
    \/ \E t \in Threads : SendTransmit(t)
    \/ \E t \in Threads : CallReceive(t, DomLife)
    \/ \E t \in Threads : ReceiveLock(t)
    \/ \E t \in Threads : ReceiveTimeout(t)
    \/ \E t \in Threads : ReceiveFailure(t)
    \/ \E t \in Threads : CallConfigure(t, DomLife)
    \/ \E t \in Threads : ConfigureLock(t)
    \/ \E t \in Threads : ConfigurePort(t)
    \/ \E t \in Threads : ConfigureAddress(t)
    \/ \E t \in Threads : ConfigureSet(t)
    \/ \E t \in Threads : SetTimeout(t, DomLife)
SpecLife == InitLife /\ [][NextLife]_vars

\* an endpoint is destroyed at any moment, also while receive, send and
\* send_to calls are running on it and datagrams arrive
DomDestroy == [endpoints |-> {"s1"}, sendSocks |-> {"s1"}, recvSocks |-> {"s1"},
               sendBufs |-> {[form |-> "pointer", k |-> 1, buf |-> OneBuf]},
               recvForms |-> {[form |-> "pointer", k |-> 1]}, caps |-> {MaxLen},
               ports |-> {BoundPort("s2")}, addrs |-> {Loopback}, timeouts |-> TimeoutsMs]
InitDestroy == InitWith([NoBudget EXCEPT !["destroy"] = 1, !["receive"] = MaxReceives,
                                         !["arrive"] = 1, !["send"] = 1, !["send_to"] = 1,
                                         !["set_socket_receive_timeout"] = 1], {})
NextDestroy ==
    \/ \E t \in Threads : CallDestroy(t, DomDestroy)
    \/ \E t \in Threads : DestroyLockMember(t)
    \/ \E t \in Threads : DestroyLockSend(t)
    \/ \E t \in Threads : DestroyClose(t)
    \/ \E t \in Threads : UseAfterDestroy(t)
    \/ \E t \in Threads : CallReceive(t, DomDestroy)
    \/ \E t \in Threads : ReceiveLock(t)
    \/ \E t \in Threads : ReceiveDatagram(t)
    \/ \E t \in Threads : ReceiveTimeout(t)
    \/ \E t \in Threads : ReceiveFailure(t)
    \/ \E t \in Threads : CallSend(t, DomDestroy)
    \/ \E t \in Threads : SendLockMember(t)
    \/ \E t \in Threads : SendLockSend(t)
    \/ \E t \in Threads : SendCheck(t)
    \/ \E t \in Threads : CallSendTo(t, DomDestroy)
    \/ \E t \in Threads : SendToLock(t)
    \/ \E t \in Threads : SendToAddress(t)
    \/ \E t \in Threads : SendToTransmit(t)
    \/ \E t \in Threads : SetTimeout(t, DomDestroy)
    \/ Arrive(DomDestroy)
SpecDestroy == InitDestroy /\ [][NextDestroy]_vars

\* one endpoint is constructed (POSIX), its receive timeout is set and set
\* again, and receive is called on it while a datagram may arrive
DomTimeout == [endpoints |-> {"s1"}, bindPorts |-> {BoundPort("s1")},
               bindAddrs |-> {EmptyAddress, Loopback},
               sendSocks |-> {"s1"}, recvSocks |-> {"s1"}, sendBufs |-> TwoBufs,
               recvForms |-> RecvFormsAll, caps |-> {MaxLen},
               ports |-> {BoundPort("s1")}, addrs |-> {Loopback}, timeouts |-> TimeoutsMs]
InitTimeout ==
    /\ InitNothing([NoBudget EXCEPT !["construct"] = 1, !["set_socket_receive_timeout"] = 2,
                                    !["receive"] = MaxReceives, !["arrive"] = 1])
    /\ os = "posix"
NextTimeout ==
    \/ \E t \in Threads : CallConstruct(t, DomTimeout)
    \/ \E t \in Threads : ConstructStart(t)
    \/ \E t \in Threads : ConstructSocket(t)
    \/ \E t \in Threads : ConstructOptions(t)
    \/ \E t \in Threads : ConstructBind(t)
    \/ \E t \in Threads : SetTimeout(t, DomTimeout)
    \/ \E t \in Threads : CallReceive(t, DomTimeout)
    \/ \E t \in Threads : ReceiveLock(t)
    \/ \E t \in Threads : ReceiveDatagram(t)
    \/ \E t \in Threads : ReceiveTimeout(t)
    \/ \E t \in Threads : ReceiveFailure(t)
    \/ Arrive(DomTimeout)
SpecTimeout == InitTimeout /\ [][NextTimeout]_vars

\* one send and one send_to on one endpoint, configured before or meanwhile,
\* with every buffer of both forms and both element sizes
DomSendAll == [sendSocks |-> {"s2"}, recvSocks |-> {"s1"}, sendBufs |-> SendBufsAll,
               recvForms |-> RecvFormsAll, caps |-> Capacities,
               ports |-> {BoundPort("s1")}, addrs |-> {Loopback}, timeouts |-> TimeoutsMs]
InitSendAll == InitWith([NoBudget EXCEPT !["configure_remote_host"] = 1, !["send"] = 1,
                                         !["send_to"] = 1], {"s2"})
NextSendAll ==
    \/ \E t \in Threads : CallConfigure(t, DomSendAll)
    \/ \E t \in Threads : ConfigureLock(t)
    \/ \E t \in Threads : ConfigurePort(t)
    \/ \E t \in Threads : ConfigureAddress(t)
    \/ \E t \in Threads : ConfigureSet(t)
    \/ \E t \in Threads : CallSend(t, DomSendAll)
    \/ \E t \in Threads : SendLockMember(t)
    \/ \E t \in Threads : SendLockSend(t)
    \/ \E t \in Threads : SendCheck(t)
    \/ \E t \in Threads : SendTransmit(t)
    \/ \E t \in Threads : CallSendTo(t, DomSendAll)
    \/ \E t \in Threads : SendToLock(t)
    \/ \E t \in Threads : SendToAddress(t)
    \/ \E t \in Threads : SendToTransmit(t)
SpecSendAll == InitSendAll /\ [][NextSendAll]_vars

\* datagrams of MaxLen bytes arrive at an endpoint, of a build for either
\* platform, on which receive is called with a capacity below or equal to
\* their length
DomTruncate == [sendSocks |-> {"s2"}, recvSocks |-> {"s1"}, sendBufs |-> TwoBufs,
                recvForms |-> RecvFormsAll, caps |-> Capacities,
                ports |-> {BoundPort("s1")}, addrs |-> {Loopback}, timeouts |-> TimeoutsMs]
InitTruncate == InitBuilt([NoBudget EXCEPT !["receive"] = MaxReceives, !["arrive"] = MaxReceives],
                          {}, Platforms)
NextTruncate ==
    \/ Arrive(DomTruncate)
    \/ \E t \in Threads : CallReceive(t, DomTruncate)
    \/ \E t \in Threads : ReceiveLock(t)
    \/ \E t \in Threads : ReceiveDatagram(t)
    \/ \E t \in Threads : ReceiveFailure(t)
SpecTruncate == InitTruncate /\ [][NextTruncate]_vars

\* set_socket_receive_timeout is called on both endpoints with timeouts from
\* all over the range of unsigned int
DomConversion == [sendSocks |-> Sockets, recvSocks |-> Sockets, sendBufs |-> TwoBufs,
                  recvForms |-> RecvFormsAll, caps |-> {MaxLen},
                  ports |-> {BoundPort("s1")}, addrs |-> {Loopback}, timeouts |-> WideTimeoutsMs]
InitConversion == InitWith([NoBudget EXCEPT !["set_socket_receive_timeout"] = 2], {})
NextConversion ==
    \/ \E t \in Threads : SetTimeout(t, DomConversion)
SpecConversion == InitConversion /\ [][NextConversion]_vars

\* an endpoint is destroyed while send, send_to and configure_remote_host
\* calls are running on it
DomClose == [endpoints |-> {"s1"}, sendSocks |-> {"s1"}, recvSocks |-> {"s1"},
             sendBufs |-> {[form |-> "pointer", k |-> 1, buf |-> OneBuf]},
             recvForms |-> {[form |-> "pointer", k |-> 1]}, caps |-> {MaxLen},
             ports |-> {BoundPort("s2")}, addrs |-> {Loopback}, timeouts |-> TimeoutsMs]
InitClose == InitWith([NoBudget EXCEPT !["destroy"] = 1, !["configure_remote_host"] = 1,
                                       !["send"] = MaxSends, !["send_to"] = 1], {})
NextClose ==
    \/ \E t \in Threads : CallDestroy(t, DomClose)
    \/ \E t \in Threads : DestroyLockMember(t)
    \/ \E t \in Threads : DestroyLockSend(t)
    \/ \E t \in Threads : DestroyClose(t)
    \/ \E t \in Threads : UseAfterDestroy(t)
    \/ \E t \in Threads : CallConfigure(t, DomClose)
    \/ \E t \in Threads : ConfigureLock(t)
    \/ \E t \in Threads : ConfigurePort(t)
    \/ \E t \in Threads : ConfigureAddress(t)
    \/ \E t \in Threads : ConfigureSet(t)
    \/ \E t \in Threads : CallSend(t, DomClose)
    \/ \E t \in Threads : SendLockMember(t)
    \/ \E t \in Threads : SendLockSend(t)
    \/ \E t \in Threads : SendCheck(t)
    \/ \E t \in Threads : SendTransmit(t)
    \/ \E t \in Threads : CallSendTo(t, DomClose)
    \/ \E t \in Threads : SendToLock(t)
    \/ \E t \in Threads : SendToAddress(t)
    \/ \E t \in Threads : SendToTransmit(t)
SpecClose == InitClose /\ [][NextClose]_vars

\* receive calls of two threads on one endpoint whose receive timeout is
\* not zero, under fair scheduling: a thread that can take receive_mutex
\* takes it, and recv returns the queued datagram or, the timeout elapsed
\* with nothing queued, the timeout code; a recv that fails is possible
\* and never required. The callers receive bytes (the pointer form and
\* receive<char>).
PositiveTimeoutsMs == TimeoutsMs \ {to_unsigned_int(0)}
RecvFormsBytes == {f \in RecvFormsAll : f.k = 1}
DomLive == [sendSocks |-> {"s2"}, recvSocks |-> {"s1"}, sendBufs |-> TwoBufs,
            recvForms |-> RecvFormsBytes, caps |-> {MaxLen},
            ports |-> {BoundPort("s1")}, addrs |-> {Loopback}, timeouts |-> PositiveTimeoutsMs]
InitLive ==
    \E ms \in PositiveTimeoutsMs :
        InitSet([NoBudget EXCEPT !["receive"] = MaxReceives, !["arrive"] = 1,
                                 !["set_socket_receive_timeout"] = 1], {}, Platforms, ms)
NextLive ==
    \/ Arrive(DomLive)
    \/ \E t \in Threads : CallReceive(t, DomLive)
    \/ \E t \in Threads : ReceiveLock(t)
    \/ \E t \in Threads : ReceiveDatagram(t)
    \/ \E t \in Threads : ReceiveTimeout(t)
    \/ \E t \in Threads : ReceiveFailure(t)
    \/ \E t \in Threads : SetTimeout(t, DomLive)
FairLive ==
    \A t \in Threads : /\ WF_vars(ReceiveLock(t))
                        /\ WF_vars(ReceiveDatagram(t))
                        /\ WF_vars(ReceiveTimeout(t))
SpecLive == InitLive /\ [][NextLive]_vars /\ FairLive

\* every method called concurrently on one endpoint, which is destroyed at
\* any moment
DomLocks == [endpoints |-> {"s1"}, sendSocks |-> {"s1"}, recvSocks |-> {"s1"},
             sendBufs |-> {[form |-> "pointer", k |-> 1, buf |-> OneBuf]},
             recvForms |-> {[form |-> "pointer", k |-> 1]}, caps |-> {MaxLen},
             ports |-> {BoundPort("s2")}, addrs |-> {Loopback}, timeouts |-> TimeoutsMs]
InitLocks == InitWith([NoBudget EXCEPT !["destroy"] = 1, !["configure_remote_host"] = 1,
                                       !["send"] = 1, !["send_to"] = 1, !["receive"] = 1,
                                       !["set_socket_receive_timeout"] = 1,
                                       !["get_socket_file_descriptor"] = 1], {})
NextLocks ==
    \/ \E t \in Threads : CallDestroy(t, DomLocks)
    \/ \E t \in Threads : DestroyLockMember(t)
    \/ \E t \in Threads : DestroyLockSend(t)
    \/ \E t \in Threads : DestroyClose(t)
    \/ \E t \in Threads : UseAfterDestroy(t)
    \/ \E t \in Threads : CallConfigure(t, DomLocks)
    \/ \E t \in Threads : ConfigureLock(t)
    \/ \E t \in Threads : ConfigurePort(t)
    \/ \E t \in Threads : ConfigureAddress(t)
    \/ \E t \in Threads : ConfigureSet(t)
    \/ \E t \in Threads : CallSend(t, DomLocks)
    \/ \E t \in Threads : SendLockMember(t)
    \/ \E t \in Threads : SendLockSend(t)
    \/ \E t \in Threads : SendCheck(t)
    \/ \E t \in Threads : SendTransmit(t)
    \/ \E t \in Threads : CallSendTo(t, DomLocks)
    \/ \E t \in Threads : SendToLock(t)
    \/ \E t \in Threads : SendToAddress(t)
    \/ \E t \in Threads : SendToTransmit(t)
    \/ \E t \in Threads : CallReceive(t, DomLocks)
    \/ \E t \in Threads : ReceiveLock(t)
    \/ \E t \in Threads : ReceiveTimeout(t)
    \/ \E t \in Threads : ReceiveFailure(t)
    \/ \E t \in Threads : SetTimeout(t, DomLocks)
    \/ \E t \in Threads : GetDescriptor(t, DomLocks)
SpecLocks == InitLocks /\ [][NextLocks]_vars

\* configure_remote_host calls, to valid and invalid addresses, running
\* concurrently with a send on the same endpoint
DomLinear == [sendSocks |-> {"s2"}, recvSocks |-> {"s1"},
              sendBufs |-> {[form |-> "pointer", k |-> 1, buf |-> OneBuf]},
              recvForms |-> RecvFormsAll, caps |-> Capacities,
              ports |-> Ports, addrs |-> {Loopback, OtherHost, BadAddress}, timeouts |-> TimeoutsMs]
InitLinear == InitWith([NoBudget EXCEPT !["configure_remote_host"] = MaxConfigures,
                                        !["send"] = 1], {})
NextLinear ==
    \/ \E t \in Threads : CallConfigure(t, DomLinear)
    \/ \E t \in Threads : ConfigureLock(t)
    \/ \E t \in Threads : ConfigurePort(t)
    \/ \E t \in Threads : ConfigureAddress(t)
    \/ \E t \in Threads : ConfigureSet(t)
    \/ \E t \in Threads : CallSend(t, DomLinear)
    \/ \E t \in Threads : SendLockMember(t)
    \/ \E t \in Threads : SendLockSend(t)
    \/ \E t \in Threads : SendCheck(t)
    \/ \E t \in Threads : SendTransmit(t)
SpecLinear == InitLinear /\ [][NextLinear]_vars

\* receive calls on one UDPSocket, built for either platform, on which a
\* receive timeout of 0 or 1500 ms is set, while datagrams arrive
DomUDPSocket == [sendSocks |-> {"s2"}, recvSocks |-> {"s1"}, sendBufs |-> TwoBufs,
                 recvForms |-> {[form |-> "vector", k |-> 1]}, caps |-> Capacities,
                 ports |-> {BoundPort("s1")}, addrs |-> {Loopback}, timeouts |-> TimeoutsMs]
InitUDPSocket ==
    \E ms \in TimeoutsMs :
        InitSet([NoBudget EXCEPT !["receive"] = MaxReceives, !["arrive"] = 1], {}, Platforms, ms)
NextUDPSocket ==
    \/ Arrive(DomUDPSocket)
    \/ \E t \in Threads : CallReceive(t, DomUDPSocket)
    \/ \E t \in Threads : ReceiveLock(t)
    \/ \E t \in Threads : UDPSocketReceive(t)
SpecUDPSocket == InitUDPSocket /\ [][NextUDPSocket]_vars

(***************************************************************************)
(* Properties                                                              *)
(***************************************************************************)
\* the bytes of a buffer passed to send / send_to, and of a receive result
BufferBytes(form, buf) == IF form = "vector" THEN Flatten(buf) ELSE buf

\* C1: a datagram that send_to put on the network and receive took from the
\* socket with a capacity of at least its length comes back as the bytes the
\* sender passed: same length, same bytes, in every combination of the
\* vector and pointer forms (the element size of a vector receive dividing
\* the length, as it does for the byte forms)
RoundTrip ==
    \A t \in Threads : \A u \in Threads :
        LET r == ret[t]
            w == ret[u]
            D == BufferBytes(w.form, w.buf)
        IN (/\ r.op = "receive" /\ r.platform = "datagram"
            /\ w.op = "send_to" /\ w.platform = "sent" /\ w.sent.id = r.dgram.id
            /\ r.cap >= Len(D)
            /\ Len(D) % r.k = 0)
           => /\ ~r.thrown
              /\ BufferBytes(r.form, r.out) = D
              /\ r.value = Len(D) \div r.k
              /\ ~r.overflow
\* a vector send_to of MaxLen bytes with a zero byte, received whole by the
\* pointer form on the other endpoint
RoundTripWitness ==
    \E t \in Threads : \E u \in Threads :
        /\ ret[t].op = "receive" /\ ret[t].platform = "datagram" /\ ret[t].form = "pointer"
        /\ ret[u].op = "send_to" /\ ret[u].platform = "sent" /\ ret[u].form = "vector"
        /\ ret[u].sent.id = ret[t].dgram.id /\ ret[u].s # ret[t].s
        /\ ret[t].out = OneBuf

\* the sendto step of thread t ends its call as send_to(D, port, addr) ends:
\* one more datagram on the network, to (addr, port), holding D, and the
\* length of D returned; or nothing sent and send_error with the errno
EndsAsSendTo(t, port, addr) ==
    LET D == BufferBytes(call[t].form, call[t].buf)
        r == ret'[t]
    IN \/ /\ ~r.thrown /\ r.value = Len(D)
          /\ wire \subseteq wire'
          /\ \E g \in wire' \ wire :
                /\ wire' \ wire = {g}
                /\ g.dst = [addr |-> PackAddr(addr), port |-> port]
                /\ g.data = D /\ g.src = call[t].s
       \/ /\ r.thrown /\ r.kind = SEND_ERROR /\ r.code \in SendErrnos
          /\ wire' = wire
\* C2: send(D) after a successful configure_remote_host(port, addr) does what
\* send_to(D, port, addr) does: same datagram, destination, byte count, error
ConfiguredSendIsSendTo ==
    [][\A t \in Threads :
          /\ (pc[t] = "s_sendto" /\ pc'[t] = "idle" /\ lastCfg[call[t].s].ok)
                => EndsAsSendTo(t, lastCfg[call[t].s].port, lastCfg[call[t].s].addr)
          /\ (pc[t] = "st_sendto" /\ pc'[t] = "idle")
                => EndsAsSendTo(t, call[t].port, call[t].addr)]_vars
\* a send that put a datagram on the network after a successful configure
ConfiguredSendWitness ==
    \E t \in Threads :
        /\ ret[t].op = "send" /\ ret[t].platform = "sent" /\ lastCfg[ret[t].s].ok
        /\ ret[t].sent.dst = [addr |-> PackAddr(lastCfg[ret[t].s].addr), port |-> lastCfg[ret[t].s].port]

\* C3: send on an endpoint on which no configure_remote_host has succeeded
\* (none was called, in particular) throws send_error, sends nothing and
\* leaves the general lock and the send-path lock free
SendUnconfiguredFails ==
    [][\A t \in Threads :
          (/\ call[t].op = "send" /\ pc[t] # "idle" /\ pc'[t] = "idle"
           /\ cfgOK[call[t].s] = {})
          => /\ ret'[t].thrown /\ ret'[t].kind = SEND_ERROR
             /\ wire' = wire
             /\ member_mutex'[call[t].s] = NoThread
             /\ send_mutex'[call[t].s] = NoThread]_vars
\* a send that threw on an endpoint never configured, the locks free again
SendUnconfiguredWitness ==
    \E t \in Threads :
        /\ ret[t].op = "send" /\ ret[t].thrown /\ ret[t].kind = SEND_ERROR
        /\ ~lastCfg[ret[t].s].ended
        /\ member_mutex[ret[t].s] = NoThread /\ send_mutex[ret[t].s] = NoThread

\* C4: a receive whose recv timed out returns the empty vector / 0 and does
\* not throw; no receive changes the socket's timeout
ReceiveTimeoutNotError ==
    [][\A t \in Threads :
          (pc[t] = "r_recv" /\ pc'[t] = "idle")
          => /\ so_rcvtimeo' = so_rcvtimeo
             /\ ret'[t].platform = "timeout"
                   => (~ret'[t].thrown /\ ret'[t].value = 0 /\ ret'[t].out = <<>>)]_vars
\* two receive calls, one of each form, have both timed out on an endpoint
\* whose timeout is not zero
ReceiveTimeoutWitness ==
    \E t \in Threads : \E u \in Threads :
        /\ ret[t].op = "receive" /\ ret[t].platform = "timeout" /\ ret[t].form = "vector"
        /\ ret[u].op = "receive" /\ ret[u].platform = "timeout" /\ ret[u].form = "pointer"
        /\ ret[t].s = ret[u].s /\ ~Blocking(so_rcvtimeo[ret[t].s]) /\ rxq[ret[t].s] = <<>>
        /\ ~ret[t].thrown /\ ~ret[u].thrown

\* identities of the datagrams queued in the endpoints
Queued == UNION {{rxq[s][i].id : i \in DOMAIN rxq[s]} : s \in Sockets}
\* C5: of the datagrams that arrived at an endpoint, each is queued or was
\* returned by exactly one receive call, never both and never twice; a call
\* that took a datagram returned all of its bytes unchanged (given capacity
\* for them and an element size dividing the length), any other call
\* returned the timeout result or threw receive_error on a recv failure
ReceiveExactlyOnce ==
    /\ \A i \in DOMAIN consumed : \A j \in DOMAIN consumed :
          i # j => consumed[i].dgram.id # consumed[j].dgram.id
    /\ \A s \in Sockets : \A i \in DOMAIN rxq[s] : \A j \in DOMAIN rxq[s] :
          i # j => rxq[s][i].id # rxq[s][j].id
    /\ \A id \in 1..(nextId - 1) :
          (id \in Queued) # (\E i \in DOMAIN consumed : consumed[i].dgram.id = id)
    /\ \A i \in DOMAIN consumed :
          LET r == consumed[i]
          IN /\ ~r.thrown
             /\ (r.cap >= Len(r.dgram.data) /\ Len(r.dgram.data) % r.k = 0)
                   => BufferBytes(r.form, r.out) = r.dgram.data
    /\ \A t \in Threads :
          ret[t].op = "receive" =>
             \/ /\ ret[t].platform = "datagram"
                /\ \E i \in DOMAIN consumed :
                      consumed[i].dgram.id = ret[t].dgram.id /\ consumed[i].by = t
             \/ ret[t].platform = "timeout" /\ ~ret[t].thrown /\ ret[t].out = <<>> /\ ret[t].value = 0
             \/ ret[t].platform = "failure" /\ ret[t].thrown /\ ret[t].kind = RECEIVE_ERROR
\* MaxReceives datagrams arrived and all were returned, whole, by receive
\* calls of both threads
ReceiveExactlyOnceWitness ==
    /\ nextId - 1 = MaxReceives /\ Len(consumed) = MaxReceives /\ Queued = {}
    /\ \A t \in Threads : \E i \in DOMAIN consumed : consumed[i].by = t
    /\ \A i \in DOMAIN consumed :
          BufferBytes(consumed[i].form, consumed[i].out) = consumed[i].dgram.data
    /\ \E i \in DOMAIN consumed : \E j \in DOMAIN consumed :
          consumed[i].dgram.data # consumed[j].dgram.data

\* the threads inside recv on endpoint s
InRecv(s) == {t \in Threads : pc[t] = "r_recv" /\ call[t].s = s}
\* C6: at most one thread is between taking and releasing receive_mutex of
\* an endpoint, and it is the owner of the mutex
ReceiveMutualExclusion ==
    \A s \in Sockets :
        /\ Cardinality(InRecv(s)) <= 1
        /\ \A t \in InRecv(s) : receive_mutex[s] = t
        /\ receive_mutex[s] # NoThread => receive_mutex[s] \in InRecv(s)
\* one thread is inside recv while another waits for receive_mutex
ReceiveMutualExclusionWitness ==
    \E t \in Threads : \E u \in Threads :
        /\ pc[t] = "r_recv" /\ pc[u] = "r_lock" /\ call[t].s = call[u].s
        /\ receive_mutex[call[t].s] = t

\* the threads inside the sendto call of send or send_to on endpoint s
InSendto(s) == {t \in Threads : pc[t] \in {"st_sendto", "s_sendto"} /\ call[t].s = s}
\* C7: at most one thread is inside sendto on an endpoint, whichever of
\* send and send_to the threads called, and it owns send_mutex
SendMutualExclusion ==
    \A s \in Sockets :
        /\ Cardinality(InSendto(s)) <= 1
        /\ \A t \in InSendto(s) : send_mutex[s] = t
\* one thread is inside sendto while the other, in the other send method,
\* waits for send_mutex
SendMutualExclusionWitness ==
    \E t \in Threads : \E u \in Threads :
        /\ call[t].s = call[u].s
        /\ \/ pc[t] = "s_sendto" /\ pc[u] = "st_lock"
           \/ pc[t] = "st_sendto" /\ pc[u] = "s_lock_s"

SendLabels == {"st_lock", "st_addr", "st_sendto", "s_lock_m", "s_lock_s", "s_check", "s_sendto"}
ConfigureLabels == {"c_lock", "c_port", "c_addr", "c_set"}
ReceiveLabels == {"r_lock", "r_recv"}
\* C8: receive_mutex is only ever held by a thread inside receive, send_mutex
\* and member_mutex never are; a send, send_to or configure_remote_host whose
\* own lock is free can take it whatever the state of receive_mutex, and a
\* receive can take receive_mutex whatever the state of the other two
SendReceiveIndependent ==
    /\ \A s \in Sockets :
          /\ receive_mutex[s] # NoThread => pc[receive_mutex[s]] \in ReceiveLabels
          /\ send_mutex[s] # NoThread => pc[send_mutex[s]] \in SendLabels
          /\ member_mutex[s] # NoThread => pc[member_mutex[s]] \in SendLabels \cup ConfigureLabels
    /\ \A t \in Threads :
          ~crashed =>
             /\ (pc[t] = "st_lock" /\ send_mutex[call[t].s] = NoThread) => ENABLED SendToLock(t)
             /\ (pc[t] = "s_lock_m" /\ member_mutex[call[t].s] = NoThread) => ENABLED SendLockMember(t)
             /\ (pc[t] = "s_lock_s" /\ send_mutex[call[t].s] = NoThread) => ENABLED SendLockSend(t)
             /\ (pc[t] = "c_lock" /\ member_mutex[call[t].s] = NoThread) => ENABLED ConfigureLock(t)
             /\ (pc[t] = "r_lock" /\ receive_mutex[call[t].s] = NoThread) => ENABLED ReceiveLock(t)
\* one thread is inside sendto while the other is blocked inside recv on the
\* same endpoint, which has no timeout and nothing queued
SendReceiveIndependentWitness ==
    \E t \in Threads : \E u \in Threads :
        /\ pc[t] \in {"st_sendto", "s_sendto"} /\ pc[u] = "r_recv" /\ call[t].s = call[u].s
        /\ Blocking(so_rcvtimeo[call[u].s]) /\ rxq[call[u].s] = <<>>

\* C9: every datagram transmitted by send goes to the (address, port) pair
\* that was the argument pair of one successful configure_remote_host call
SendUsesOneConfigure ==
    \A t \in Threads :
        (ret[t].op = "send" /\ ret[t].platform = "sent")
        => \E c \in cfgOK[ret[t].s] :
              ret[t].sent.dst = [addr |-> PackAddr(c.addr), port |-> c.port]

\* C10: a configure_remote_host that throws because the address does not
\* parse throws configuration_error and leaves the stored address, the
\* stored port and the validity flag as they were when it took the lock
FailedConfigureChangesNothing ==
    [][\A t \in Threads :
          (pc[t] = "c_addr" /\ pc'[t] = "idle")
          => /\ ret'[t].thrown /\ ret'[t].kind = CONFIGURATION_ERROR
             /\ remote_address'[call[t].s] = call[t].before
             /\ remote_address_set'[call[t].s] = call[t].before_set]_vars

\* C11: remote_address_set is false as long as no configure_remote_host has
\* succeeded on the endpoint; the only step that sets it is the end of a
\* configure_remote_host whose address parsed; once set, no step of any
\* method clears it
FlagStaysSet ==
    [][\A s \in Sockets :
          /\ cfgOK[s] = {} => ~remote_address_set[s]
          /\ cfgOK'[s] = {} => ~remote_address_set'[s]
          /\ remote_address_set[s] => remote_address_set'[s]
          /\ (~remote_address_set[s] /\ remote_address_set'[s])
                => \E t \in Threads : /\ pc[t] = "c_set" /\ pc'[t] = "idle" /\ call[t].s = s
                                      /\ inet_pton_ok(call[t].addr) /\ ~ret'[t].thrown]_vars
\* the flag is still set after a later configure_remote_host has failed and
\* a send, a send_to, a receive and a set_socket_receive_timeout have ended
FlagStaysSetWitness ==
    \E s \in Sockets :
        /\ remote_address_set[s] /\ lastCfg[s].ended /\ ~lastCfg[s].ok
        /\ \A op \in {"send", "send_to", "receive", "set_socket_receive_timeout"} : budget[op] = 0
        /\ \A t \in Threads : pc[t] = "idle"

ConstructLabels == {"k_start", "k_socket", "k_opts", "k_bind"}
\* the platform calls of the constructor, as the results name them
PlatformCalls == {"WSAStartup", "socket", "setsockopt", "bind"}
\* C12: a constructor called with a port other than 0 and an address that
\* is empty or parses throws only when a platform call has failed; when it
\* returns, the object exists, its descriptor is open and bound to the
\* address (any-address for the empty string) and the port, its receive
\* timeout is zero, no remote host is configured and its locks are free
ConstructSucceeds ==
    [][\A t \in Threads :
          (/\ pc[t] \in ConstructLabels /\ pc'[t] = "idle"
           /\ call[t].port # 0
           /\ call[t].addr = EmptyAddress \/ inet_pton_ok(call[t].addr))
          => LET c == call[t]
                 s == c.s
                 r == ret'[t]
             IN /\ r.thrown => r.platform \in PlatformCalls
                /\ ~r.thrown =>
                      /\ obj'[s] = "alive"
                      /\ to_int(socket_file_descriptor'[s]) \in open_fds'
                      /\ bound'[s] = [addr |-> IF c.addr = EmptyAddress THEN INADDR_ANY
                                                ELSE PackAddr(c.addr),
                                      port |-> c.port]
                      /\ Blocking(so_rcvtimeo'[s])
                      /\ ~remote_address_set'[s]
                      /\ member_mutex'[s] = NoThread /\ send_mutex'[s] = NoThread
                      /\ receive_mutex'[s] = NoThread]_vars
\* both endpoints were constructed, one of them on the loopback address, and
\* a datagram sent with send_to from one was returned by receive on the other
ConstructSucceedsWitness ==
    \E t \in Threads :
        /\ ret[t].op = "receive" /\ ret[t].platform = "datagram" /\ ret[t].dgram.src # ret[t].s
        /\ obj[ret[t].s] = "alive" /\ obj[ret[t].dgram.src] = "alive"
        /\ bound[ret[t].s] = [addr |-> PackAddr(Loopback), port |-> BoundPort(ret[t].s)]
        /\ ret[t].out = OneBuf

\* C13: a constructor called with a non-empty address that does not parse
\* ends in its first step, whatever the port, by throwing
\* initialization_error: no descriptor was opened, no option set, nothing
\* bound, and there is no object; the later steps of the constructor are
\* only ever reached with an empty or parsable address
BadAddressConstructFails ==
    [][\A t \in Threads :
          LET c == call[t]
              unparsable == c.addr # EmptyAddress /\ ~inet_pton_ok(c.addr)
          IN /\ (pc[t] = "k_start" /\ pc'[t] # "k_start" /\ unparsable)
                   => /\ pc'[t] = "idle"
                      /\ ret'[t].thrown /\ ret'[t].kind = INITIALIZATION_ERROR
                      /\ obj'[c.s] = "none"
                      /\ open_fds' = open_fds /\ sockopts' = sockopts /\ bound' = bound
                      /\ so_rcvtimeo' = so_rcvtimeo
             /\ pc[t] \in {"k_socket", "k_opts", "k_bind"} => ~unparsable]_vars
\* a constructor has thrown for its address while no descriptor is open
BadAddressConstructWitness ==
    \E t \in Threads :
        /\ ret[t].op = "construct" /\ ret[t].thrown /\ ret[t].msg = "Provided address was invalid."
        /\ ret[t].kind = INITIALIZATION_ERROR
        /\ obj[ret[t].s] = "none" /\ open_fds = {}

\* C14: when socket() fails (it returns -1), the constructor ends there by
\* throwing initialization_error; it does not go on to setsockopt and bind
\* with the invalid descriptor and throws no error of another kind
SocketFailureIsInitializationError ==
    [][\A t \in Threads :
          (/\ pc[t] = "k_socket" /\ pc'[t] # "k_socket"
           /\ to_int(socket_file_descriptor'[call[t].s]) = -1)
          => /\ pc'[t] = "idle"
             /\ ret'[t].thrown /\ ret'[t].kind = INITIALIZATION_ERROR]_vars

\* C15: when bind fails (the socket is left unbound), the constructor throws
\* initialization_error and there is no object; a thread is inside send_to,
\* send, receive or configure_remote_host only on an object that exists
BindFailureLeavesNoObject ==
    [][\A t \in Threads :
          /\ (pc[t] = "k_bind" /\ pc'[t] = "idle" /\ bound'[call[t].s] = NoBinding)
                => /\ ret'[t].thrown /\ ret'[t].kind = INITIALIZATION_ERROR
                   /\ ret'[t].platform = "bind"
                   /\ obj'[call[t].s] = "none"
          /\ (pc'[t] # "idle" /\ call'[t].op # "construct") => obj'[call'[t].s] = "alive"]_vars
\* a constructor has thrown because bind failed, there is no object, and
\* the descriptor it had opened is still open
BindFailureWitness ==
    \E t \in Threads :
        /\ ret[t].op = "construct" /\ ret[t].thrown /\ ret[t].platform = "bind"
        /\ ret[t].kind = INITIALIZATION_ERROR /\ ret[t].code \in BindErrnos
        /\ obj[ret[t].s] = "none" /\ pc[t] = "idle"
        /\ to_int(socket_file_descriptor[ret[t].s]) \in open_fds

\* the step of thread t ends a send, send_to or receive call with an error
EndsInError(t) ==
    /\ call[t].op \in {"send", "send_to", "receive"}
    /\ pc[t] # "idle" /\ pc'[t] = "idle" /\ ret'[t].thrown
\* C16: a step that ends send, send_to or receive with an error (address
\* that does not parse, sendto failure, remote host not configured, recv
\* failure) leaves the caller with none of the endpoint's locks and leaves
\* the object, its descriptor, the remote configuration and the receive
\* timeout as they were; and whatever calls ended before, a thread that has
\* reached sendto can send its datagram and a thread inside recv with a
\* datagram queued can return it
ErrorLeavesEndpointUsable ==
    [][\A t \in Threads :
          LET s == call[t].s
          IN /\ EndsInError(t)
                   => /\ member_mutex'[s] # t /\ send_mutex'[s] # t /\ receive_mutex'[s] # t
                      /\ obj'[s] = "alive"
                      /\ socket_file_descriptor' = socket_file_descriptor
                      /\ to_int(socket_file_descriptor'[s]) \in open_fds'
                      /\ remote_address' = remote_address
                      /\ remote_address_set' = remote_address_set
                      /\ so_rcvtimeo' = so_rcvtimeo
             /\ (~crashed /\ pc[t] = "st_sendto")
                   => ENABLED (SendToTransmit(t) /\ ~ret'[t].thrown)
             /\ (~crashed /\ pc[t] = "s_sendto")
                   => ENABLED (SendTransmit(t) /\ ~ret'[t].thrown)
             /\ (~crashed /\ pc[t] = "r_recv" /\ rxq[s] # <<>>)
                   => ENABLED (ReceiveDatagram(t) /\ ~ret'[t].thrown)]_vars
\* a thread whose last call on the endpoint ended with an error is in its
\* next call there, holds the send-path lock and is about to call sendto,
\* while the last call of the other thread ended with an error as well
ErrorLeavesEndpointUsableWitness ==
    \E t \in Threads : \E u \in Threads \ {t} :
        /\ ret[t].thrown /\ ret[t].op \in {"send", "send_to", "receive"}
        /\ ret[u].thrown /\ ret[u].op \in {"send", "send_to", "receive"} /\ ret[u].op # ret[t].op
        /\ pc[t] \in {"st_sendto", "s_sendto"} /\ call[t].s = ret[t].s /\ ret[u].s = ret[t].s
        /\ send_mutex[call[t].s] = t

\* C17: the constructor leaves the endpoint with the timeout 0 applied, and
\* a zero timeout makes recv block: when the timeout last applied to an
\* endpoint is 0 (by the constructor or by set_socket_receive_timeout(0)),
\* recv cannot time out, and a receive call ends only by taking a datagram
\* from the socket or by throwing receive_error for a recv failure
ZeroTimeoutBlocks ==
    [][\A t \in Threads :
          LET s == call[t].s
          IN /\ (pc[t] = "k_bind" /\ pc'[t] = "idle" /\ ~ret'[t].thrown)
                   => lastTimeout'[s] = to_unsigned_int(0) /\ Blocking(so_rcvtimeo'[s])
             /\ (pc[t] = "r_recv" /\ lastTimeout[s] = to_unsigned_int(0))
                   => /\ Blocking(so_rcvtimeo[s])
                      /\ ~ ENABLED ReceiveTimeout(t)
                      /\ pc'[t] = "idle"
                            => \/ /\ ret'[t].platform = "datagram"
                                  /\ rxq[s] # <<>> /\ rxq'[s] = Tail(rxq[s])
                                  /\ ret'[t].dgram = Head(rxq[s])
                               \/ /\ ret'[t].platform = "failure"
                                  /\ ret'[t].thrown /\ ret'[t].kind = RECEIVE_ERROR]_vars
\* on an endpoint constructed in this behaviour a receive has timed out
\* under a timeout of 1500 ms; then set_socket_receive_timeout(0) was
\* applied and the next receive is blocked in recv with nothing queued
ZeroTimeoutBlocksWitness ==
    \E t \in Threads : \E u \in Threads :
        /\ budget["construct"] = 0 /\ budget["set_socket_receive_timeout"] = 0
        /\ ret[u].op = "receive" /\ ret[u].platform = "timeout"
        /\ pc[t] = "r_recv" /\ call[t].s = ret[u].s
        /\ lastTimeout[call[t].s] = to_unsigned_int(0) /\ rxq[call[t].s] = <<>>

DestroyLabels == {"d_lock_m", "d_lock_s", "d_close"}
\* C18: the destructor takes member_mutex and send_mutex and holds both while
\* it closes the descriptor; none of its steps takes, waits for or changes
\* receive_mutex, so each is enabled as soon as its own mutex is free,
\* also while another thread holds receive_mutex inside recv
DestroySkipsReceiveLock ==
    [][\A t \in Threads :
          LET s == call[t].s
          IN /\ (pc[t] \in DestroyLabels /\ pc'[t] # pc[t]) => receive_mutex' = receive_mutex
             /\ pc[t] = "d_lock_s" => member_mutex[s] = t
             /\ pc[t] = "d_close" => member_mutex[s] = t /\ send_mutex[s] = t
             /\ (~crashed /\ pc[t] = "d_lock_m" /\ member_mutex[s] = NoThread)
                   => ENABLED DestroyLockMember(t)
             /\ (~crashed /\ pc[t] = "d_lock_s" /\ send_mutex[s] = NoThread)
                   => ENABLED DestroyLockSend(t)
             /\ (~crashed /\ pc[t] = "d_close") => ENABLED DestroyClose(t)]_vars
\* the destructor has closed the descriptor and returned while another
\* thread holds receive_mutex and is still inside recv on that descriptor
DestroySkipsReceiveLockWitness ==
    \E t \in Threads : \E u \in Threads :
        /\ ret[t].op = "destroy" /\ pc[t] = "idle"
        /\ obj[ret[t].s] = "destroyed"
        /\ to_int(socket_file_descriptor[ret[t].s]) \notin open_fds
        /\ pc[u] = "r_recv" /\ call[u].s = ret[t].s /\ receive_mutex[ret[t].s] = u

\* C19: on the platform that needs it, the network startup (WSAStartup) has
\* run exactly once by the time a socket exists, and it never runs a second
\* time, however many endpoints are constructed
StartupRunsOnce ==
    /\ wsa_startups <= 1
    /\ (os = "windows" /\ open_fds # {}) => wsa_startups = 1

\* C20: send holds member_mutex and send_mutex from its check of
\* remote_address_set to the end of sendto, and the remote configuration
\* cannot change meanwhile; send_to holds send_mutex and never member_mutex,
\* its steps leave member_mutex and the remote configuration alone, and
\* they are enabled (its sendto can succeed) whoever holds member_mutex
SendLockSets ==
    [][\A t \in Threads :
          LET s == call[t].s
          IN /\ pc[t] = "s_lock_s" => member_mutex[s] = t
             /\ pc[t] \in {"s_check", "s_sendto"}
                   => /\ member_mutex[s] = t /\ send_mutex[s] = t
                      /\ remote_address'[s] = remote_address[s]
                      /\ remote_address_set'[s] = remote_address_set[s]
             /\ pc[t] \in {"st_addr", "st_sendto"}
                   => send_mutex[s] = t /\ member_mutex[s] # t
             /\ (pc[t] \in {"st_lock", "st_addr", "st_sendto"} /\ pc'[t] # pc[t])
                   => member_mutex' = member_mutex /\ remote_address' = remote_address
                      /\ remote_address_set' = remote_address_set
             /\ (~crashed /\ pc[t] = "st_lock" /\ send_mutex[s] = NoThread)
                   => ENABLED SendToLock(t)
             /\ (~crashed /\ pc[t] = "st_addr") => ENABLED SendToAddress(t)
             /\ (~crashed /\ pc[t] = "st_sendto")
                   => ENABLED (SendToTransmit(t) /\ ~ret'[t].thrown)]_vars
\* a send_to is about to call sendto while another thread, inside
\* configure_remote_host on the same endpoint, holds member_mutex
SendLockSetsWitness ==
    \E t \in Threads : \E u \in Threads :
        /\ pc[t] = "st_sendto" /\ pc[u] \in {"c_port", "c_addr", "c_set"}
        /\ call[t].s = call[u].s /\ member_mutex[call[t].s] = u /\ send_mutex[call[t].s] = t
\* C21: a recv that fails with anything but the timeout code makes receive,
\* in both forms, throw receive_error carrying that code; only EAGAIN /
\* EWOULDBLOCK becomes the empty / 0 result; the call makes one recv: it
\* enters recv from the lock only and whatever recv returns ends the call
ReceiveFailureSurfaces ==
    [][\A t \in Threads :
          /\ (pc[t] # "r_recv" /\ pc'[t] = "r_recv") => pc[t] = "r_lock"
          /\ (pc[t] = "r_recv" /\ pc'[t] # "r_recv") =>
                LET r == ret'[t]
                IN /\ pc'[t] = "idle"
                   /\ r.platform \in {"failure", "timeout"} <=> r.errno # 0
                   /\ (r.errno # 0 /\ r.errno \notin {EAGAIN, EWOULDBLOCK})
                         => (r.thrown /\ r.kind = RECEIVE_ERROR /\ r.code = r.errno)
                   /\ r.errno \in {EAGAIN, EWOULDBLOCK}
                         => (~r.thrown /\ r.value = 0 /\ r.out = <<>>)
                   /\ r.thrown => (r.errno # 0 /\ r.errno \notin {EAGAIN, EWOULDBLOCK})]_vars
\* a vector receive and a pointer receive have both thrown receive_error
\* with the code of an interrupted recv
ReceiveFailureWitness ==
    \E t \in Threads : \E u \in Threads :
        /\ ret[t].op = "receive" /\ ret[t].form = "vector" /\ ret[t].platform = "failure"
        /\ ret[u].op = "receive" /\ ret[u].form = "pointer" /\ ret[u].platform = "failure"
        /\ ret[t].thrown /\ ret[u].thrown /\ ret[t].code = EINTR /\ ret[u].code = EINTR
\* C22: send_to with an address that does not parse throws send_error
\* without reaching sendto, so nothing is transmitted; a send or send_to
\* whose sendto fails throws send_error carrying the errno and transmits
\* nothing; a send operation that returns has not failed: it never hands
\* back -1 or another value in place of the error
SendFailureSurfaces ==
    [][\A t \in Threads :
          /\ (call[t].op = "send_to" /\ pc'[t] = "st_sendto") => inet_pton_ok(call[t].addr)
          /\ (call[t].op \in {"send", "send_to"} /\ pc[t] # "idle" /\ pc'[t] = "idle") =>
                LET r == ret'[t]
                    D == BufferBytes(call[t].form, call[t].buf)
                IN /\ (call[t].op = "send_to" /\ ~inet_pton_ok(call[t].addr))
                         => (pc[t] = "st_addr" /\ r.thrown /\ r.kind = SEND_ERROR /\ wire' = wire)
                   /\ r.errno # 0
                         => (r.thrown /\ r.kind = SEND_ERROR /\ r.code = r.errno /\ wire' = wire)
                   /\ ~r.thrown
                         => (r.errno = 0 /\ r.platform = "sent" /\ r.value = Len(D) /\ r.value # -1)]_vars
\* a send_to has thrown send_error for the address "10.0.256" and a send has
\* thrown send_error with the errno of its failed sendto; nothing was sent
SendFailureWitness ==
    \E t \in Threads : \E u \in Threads :
        /\ ret[t].op = "send_to" /\ ret[t].thrown /\ ret[t].kind = SEND_ERROR
        /\ ret[t].msg = "Provided address was invalid."
        /\ ret[u].op = "send" /\ ret[u].thrown /\ ret[u].kind = SEND_ERROR
        /\ ret[u].platform = "failure" /\ ret[u].code = ENETUNREACH
        /\ wire = {} /\ nextId = 1
\* the byte length of the buffer of call c: buffer.size() * sizeof(T) for the
\* vector form, buffer_size for the pointer form
ByteLength(c) == IF c.form = "vector" THEN Len(c.buf) * c.k ELSE Len(c.buf)
\* C23: a send or send_to that returns has queued exactly one datagram, which
\* holds the whole buffer, and returns the byte length of the buffer; a call
\* that throws has queued nothing; no other step of a call queues anything
SendNeverPartial ==
    [][/\ wire' # wire =>
             \E t \in Threads : /\ pc[t] \in {"s_sendto", "st_sendto"} /\ pc'[t] = "idle"
                                 /\ ~ret'[t].thrown
       /\ \A t \in Threads :
             (call[t].op \in {"send", "send_to"} /\ pc[t] # "idle" /\ pc'[t] = "idle") =>
                LET r == ret'[t]
                IN IF r.thrown
                   THEN wire' = wire
                   ELSE /\ wire \subseteq wire' /\ Cardinality(wire' \ wire) = 1
                        /\ \A g \in wire' \ wire :
                              /\ g.src = call[t].s
                              /\ g.data = BufferBytes(call[t].form, call[t].buf)
                              /\ Len(g.data) = ByteLength(call[t])
                        /\ r.value = ByteLength(call[t])]_vars
\* a send of a vector of one two-byte element and a send_to of MaxLen bytes
\* in the pointer form have both returned their byte lengths, and the two
\* datagrams are on the network
SendNeverPartialWitness ==
    \E t \in Threads : \E u \in Threads :
        /\ ret[t].op = "send" /\ ret[t].form = "vector" /\ ret[t].k = 2 /\ Len(ret[t].buf) = 1
        /\ ~ret[t].thrown /\ ret[t].value = 2 /\ ret[t].sent \in wire /\ Len(ret[t].sent.data) = 2
        /\ ret[u].op = "send_to" /\ ret[u].form = "pointer" /\ Len(ret[u].buf) = MaxLen
        /\ ~ret[u].thrown /\ ret[u].value = MaxLen /\ ret[u].sent \in wire
        /\ Cardinality(wire) = 2
\* C24: a receive that takes a datagram longer than its capacity c (c a
\* multiple of the element size) does not throw, returns exactly the first c
\* bytes of the datagram, and the datagram is gone from the queue, remainder
\* included, so that the next receive gets the next datagram
TruncationSilent ==
    [][\A t \in Threads :
          LET c == call[t]
              r == ret'[t]
          IN (/\ pc[t] = "r_recv" /\ pc'[t] = "idle" /\ rxq'[c.s] # rxq[c.s]
              /\ Len(Head(rxq[c.s]).data) > c.cap /\ c.cap % c.k = 0)
             => /\ ~r.thrown
                /\ BufferBytes(r.form, r.out) = SubSeq(Head(rxq[c.s]).data, 1, c.cap)
                /\ r.value * c.k = c.cap
                /\ rxq'[c.s] = Tail(rxq[c.s])]_vars
\* <limits.h>: the largest 32-bit signed int
INT_MAX == 2147483647
\* the limbs of the unsigned int sec * 1000 + msec, for msec below 1000
milliseconds(sec, msec) ==
    LET low == (sec % LimbBase) * 1000 + msec
    IN <<low % LimbBase, (sec \div LimbBase) * 1000 + low \div LimbBase>>
\* C25: the timeval in force on an endpoint is the exact conversion of the
\* timeout_ms last applied to it: tv_usec is a whole number of milliseconds
\* below one second, tv_sec whole seconds, together exactly timeout_ms
\* milliseconds (tv_sec = timeout_ms div 1000, tv_usec = (timeout_ms mod
\* 1000) * 1000), and both fields are within a 32-bit signed int
TimeoutConversionExact ==
    \A s \in Sockets :
        LET tv == so_rcvtimeo[s]
        IN /\ tv.tv_sec >= 0 /\ tv.tv_sec <= INT_MAX
           /\ tv.tv_usec >= 0 /\ tv.tv_usec < 1000000 /\ tv.tv_usec <= INT_MAX
           /\ tv.tv_usec % 1000 = 0
           /\ milliseconds(tv.tv_sec, tv.tv_usec \div 1000) = lastTimeout[s]
\* the largest unsigned int, 4294967295 ms, was applied to one endpoint and
\* is in force as 4294967 s and 295000 us; 2^31 ms was applied to the other
\* and is in force as 2147483 s and 648000 us
TimeoutConversionWitness ==
    /\ lastTimeout["s1"] = <<65535, 65535>>
    /\ so_rcvtimeo["s1"] = [tv_sec |-> 4294967, tv_usec |-> 295000]
    /\ lastTimeout["s2"] = <<0, 32768>>
    /\ so_rcvtimeo["s2"] = [tv_sec |-> 2147483, tv_usec |-> 648000]
\* C26: every descriptor open in the process belongs to an endpoint that is
\* being constructed, exists or is being destroyed: a constructor that
\* fails after socket() has closed its descriptor before it throws, and the
\* destructor closes the descriptor of an endpoint that was constructed
NoHandleLeak ==
    \A fd \in open_fds :
        \E s \in Sockets : /\ obj[s] \in {"constructing", "alive", "destroying"}
                            /\ to_int(socket_file_descriptor[s]) = fd
\* where a thread is between taking and releasing send_mutex in send or
\* send_to, and between taking and releasing member_mutex in
\* configure_remote_host
UnderSendLock == {"st_addr", "st_sendto", "s_check", "s_sendto"}
UnderConfigureLock == {"c_port", "c_addr", "c_set"}
\* C27: when the destructor closes the descriptor it holds member_mutex and
\* send_mutex of the endpoint, and no other thread is inside sendto of send
\* or send_to on it, nor inside configure_remote_host between taking and
\* releasing the general lock
CloseExcludesSenders ==
    [][\A t \in Threads :
          (pc[t] = "d_close" /\ pc'[t] = "idle") =>
             LET s == call[t].s
             IN /\ open_fds' = open_fds \ {to_int(socket_file_descriptor[s])}
                /\ member_mutex[s] = t /\ send_mutex[s] = t
                /\ \A u \in Threads \ {t} :
                      call[u].s = s => pc[u] \notin UnderSendLock \cup UnderConfigureLock]_vars
\* the destructor has closed the descriptor of an endpoint while the other
\* thread was waiting for a lock of send, send_to or configure_remote_host
\* on the same endpoint
CloseExcludesSendersWitness ==
    \E t \in Threads : \E u \in Threads :
        /\ ret[t].op = "destroy" /\ obj[ret[t].s] = "destroyed" /\ ~Open(ret[t].s)
        /\ call[u].s = ret[t].s /\ pc[u] \in {"st_lock", "s_lock_m", "c_lock"}
        /\ \E v \in Threads : ret[v].op \in {"send", "send_to"} /\ ret[v].platform = "sent"
\* the constructor of thread t goes from local_address to socket()
StartThenSocket(t) ==
    (pc'[t] = "k_socket" /\ pc[t] # "k_socket") => pc[t] = "k_start"
\* the constructor of thread t goes on to the socket options only from
\* socket(), and only with the descriptor socket() has opened
SocketThenOptions(t) ==
    (pc'[t] = "k_opts" /\ pc[t] # "k_opts") =>
        /\ pc[t] = "k_socket"
        /\ to_int(socket_file_descriptor'[call'[t].s]) \in open_fds'
\* the constructor of thread t reaches bind only from the socket options,
\* with SO_REUSEADDR, SO_BROADCAST and the receive timeout of zero set on an
\* open descriptor
OptionsThenBind(t) ==
    (pc'[t] = "k_bind" /\ pc[t] # "k_bind") =>
        LET s == call'[t].s
        IN /\ pc[t] = "k_opts"
           /\ to_int(socket_file_descriptor'[s]) \in open_fds'
           /\ {"SO_REUSEADDR", "SO_BROADCAST"} \subseteq sockopts'[s]
           /\ so_rcvtimeo'[s] = [tv_sec |-> 0, tv_usec |-> 0]
           /\ lastTimeout'[s] = to_unsigned_int(0)
\* bind is attempted only after every earlier step of the constructor has
\* succeeded, the options and the timeout of zero being set before it
BindOnlyAfterOptions ==
    [][\A t \in Threads : StartThenSocket(t) /\ OptionsThenBind(t)]_vars
\* C28: the constructor resolves the local address, requests the socket,
\* sets SO_REUSEADDR and SO_BROADCAST, sets the receive timeout to zero and
\* binds, in this order, each step being attempted only when the one before
\* it has succeeded
ConstructStepsInOrder ==
    [][\A t \in Threads :
          StartThenSocket(t) /\ SocketThenOptions(t) /\ OptionsThenBind(t)]_vars
\* C29: with a receive timeout that is not zero set on the endpoint, every
\* receive call, whether it gets receive_mutex at once or waits for it
\* behind the call of another thread, eventually returns: with a datagram,
\* with the empty result of a timeout, or by throwing receive_error
ReceiveEventuallyReturns ==
    \A t \in Threads :
        (pc[t] = "r_lock" /\ ~Blocking(so_rcvtimeo[call[t].s]))
           ~> (/\ pc[t] = "idle" /\ ret[t].op = "receive"
               /\ \/ ret[t].platform = "datagram" /\ ~ret[t].thrown
                  \/ ret[t].platform = "timeout" /\ ~ret[t].thrown /\ BufferBytes(ret[t].form, ret[t].out) = <<>>
                  \/ ret[t].platform = "failure" /\ ret[t].thrown /\ ret[t].kind = RECEIVE_ERROR)
\* a receive call has returned the empty result of a timeout while the call
\* of the other thread was waiting for receive_mutex, and nothing is queued
\* for that call
ReceiveEventuallyReturnsWitness ==
    \E t \in Threads : \E u \in Threads \ {t} :
        /\ pc[t] = "idle" /\ ret[t].op = "receive" /\ ret[t].platform = "timeout"
        /\ pc[u] = "r_lock" /\ call[u].s = ret[t].s
        /\ receive_mutex[ret[t].s] = NoThread
        /\ rxq[ret[t].s] = <<>> /\ ~Blocking(so_rcvtimeo[ret[t].s])
\* the method a step of thread t belongs to, when the step moves t
MethodOfStep(t) == IF pc[t] = "idle" THEN call'[t].op ELSE call[t].op
\* the step is one of a call of a method in ops; set_socket_receive_timeout
\* is a single step
StepOfMethod(ops) ==
    \/ \E t \in Threads : pc'[t] # pc[t] /\ MethodOfStep(t) \in ops
    \/ /\ "set_socket_receive_timeout" \in ops
       /\ budget'["set_socket_receive_timeout"] # budget["set_socket_receive_timeout"]
\* C30: a step of send, send_to, receive or set_socket_receive_timeout
\* changes neither remote_address, remote_address_set, local_address, the
\* bound address and port nor socket_file_descriptor; a step of
\* configure_remote_host changes neither socket_file_descriptor,
\* local_address, the bound address and port nor the receive timeout; and
\* remote_address and remote_address_set change only in a step of
\* configure_remote_host
FrameOfTransfers ==
    [][/\ StepOfMethod({"send", "send_to", "receive", "set_socket_receive_timeout"})
             => UNCHANGED <<remote_address, remote_address_set, local_address, bound,
                            socket_file_descriptor, open_fds>>
       /\ StepOfMethod({"configure_remote_host"})
             => UNCHANGED <<socket_file_descriptor, open_fds, local_address, bound,
                            so_rcvtimeo, lastTimeout>>
       /\ (remote_address' # remote_address \/ remote_address_set' # remote_address_set)
             => StepOfMethod({"configure_remote_host"})]_vars
\* configure_remote_host has set the remote host of an endpoint, a send on
\* it has transmitted to that host and a receive on it has returned, with
\* the receive timeout set to 1500 ms meanwhile
FrameOfTransfersWitness ==
    \E t \in Threads : \E u \in Threads \ {t} :
        /\ ret[t].op = "send" /\ ret[t].platform = "sent"
        /\ ret[u].op = "receive" /\ ret[u].s = ret[t].s
        /\ remote_address_set[ret[t].s] = TRUE
        /\ lastTimeout[ret[t].s] = to_unsigned_int(1500)
        /\ budget["send_to"] = 0
\* the thread, if any, that holds the mutex thread t is waiting for in its
\* std::unique_lock constructor
AwaitedHolder(t) ==
    IF pc[t] \in {"s_lock_m", "c_lock", "d_lock_m"} THEN member_mutex[call[t].s]
    ELSE IF pc[t] \in {"st_lock", "s_lock_s", "d_lock_s"} THEN send_mutex[call[t].s]
    ELSE IF pc[t] = "r_lock" THEN receive_mutex[call[t].s]
    ELSE NoThread
\* the threads t waits for, directly or through at most n others
RECURSIVE AwaitedChain(_, _)
AwaitedChain(t, n) ==
    IF n = 0 \/ AwaitedHolder(t) = NoThread THEN {}
    ELSE {AwaitedHolder(t)} \cup AwaitedChain(AwaitedHolder(t), n - 1)
\* the mutexes of endpoint s that thread t holds
HeldBy(t, s) ==
    {m \in {"member", "send", "receive"} :
        (IF m = "member" THEN member_mutex[s] ELSE IF m = "send" THEN send_mutex[s]
         ELSE receive_mutex[s]) = t}
\* C31: no thread waits, directly or through other threads, for a mutex it
\* holds itself; a thread that waits for member_mutex holds no mutex, a
\* thread that waits for send_mutex holds at most member_mutex, and a thread
\* that holds or waits for receive_mutex holds no other mutex
NoLockCycle ==
    \A t \in Threads :
        /\ t \notin AwaitedChain(t, Cardinality(Threads))
        /\ \A s \in Sockets :
              /\ (pc[t] \in {"s_lock_m", "c_lock", "d_lock_m"} /\ call[t].s = s) => HeldBy(t, s) = {}
              /\ (pc[t] \in {"st_lock", "s_lock_s", "d_lock_s"} /\ call[t].s = s)
                    => HeldBy(t, s) \subseteq {"member"}
              /\ (pc[t] = "r_lock" /\ call[t].s = s) => HeldBy(t, s) = {}
              /\ "receive" \in HeldBy(t, s) => HeldBy(t, s) = {"receive"}
              /\ "send" \in HeldBy(t, s) /\ pc[t] \in {"s_check", "s_sendto", "d_close"}
                    => "member" \in HeldBy(t, s)
\* the destructor holds member_mutex and waits for send_mutex, which a
\* send_to of the other thread holds while it transmits
NoLockCycleWitness ==
    \E t \in Threads : \E u \in Threads \ {t} :
        /\ pc[t] = "d_lock_s" /\ member_mutex[call[t].s] = t
        /\ pc[u] = "st_sendto" /\ call[u].s = call[t].s /\ send_mutex[call[t].s] = u
        /\ AwaitedHolder(t) = u /\ AwaitedHolder(u) = NoThread
\* where a send is once it has taken member_mutex: waiting for send_mutex,
\* testing remote_address_set, or in sendto
SendHoldsMember == {"s_lock_s", "s_check", "s_sendto"}
\* C32: from the moment a send has taken member_mutex until it returns, no
\* step changes remote_address or remote_address_set of its endpoint and no
\* configure_remote_host on that endpoint is past its lock or ends; the
\* datagram the send transmits goes to remote_address as it was when the
\* send took member_mutex, which is what the last configure_remote_host
\* that had ended by then stored (its port, and its address when it parsed)
SendSeesLastConfigure ==
    [][\A t \in Threads :
          (pc[t] \in SendHoldsMember) =>
             LET s == call[t].s
             IN /\ remote_address'[s] = remote_address[s]
                /\ remote_address_set'[s] = remote_address_set[s]
                /\ lastCfg'[s] = lastCfg[s]
                /\ \A u \in Threads \ {t} :
                      call[u].s = s => pc[u] \notin UnderConfigureLock /\ pc'[u] \notin UnderConfigureLock
                /\ (pc[t] = "s_sendto" /\ wire' # wire) =>
                      \E g \in wire' \ wire :
                         /\ wire' = wire \cup {g}
                         /\ g.dst = sendto_dest(remote_address[s])
                         /\ lastCfg[s].ended /\ g.dst.port = lastCfg[s].port
                         /\ lastCfg[s].ok => g.dst.addr = PackAddr(lastCfg[s].addr)]_vars
\* a send has transmitted to the destination of the second of two
\* successful configure_remote_host calls with different destinations, the
\* other thread having made one of them
SendSeesLastConfigureWitness ==
    \E t \in Threads : \E u \in Threads \ {t} :
        /\ ret[t].op = "send" /\ ret[t].platform = "sent"
        /\ Cardinality(cfgOK[ret[t].s]) = 2 /\ lastCfg[ret[t].s].ok
        /\ ret[t].sent.dst = [addr |-> PackAddr(lastCfg[ret[t].s].addr), port |-> lastCfg[ret[t].s].port]
        /\ ret[u].op = "configure_remote_host" /\ pc[u] = "idle"
\* C33: for every datagram a receive<T> call has taken, the bytes memcpy
\* writes (the receive_size bytes recv delivered) fit in the vector that is
\* returned, element count * sizeof(T) bytes, and the vector holds every
\* one of them; so the copy never writes past the vector
ReceiveFitsVector ==
    /\ ~crashed
    /\ \A i \in 1..Len(consumed) :
          LET r == consumed[i]
              received == recv_copy(r.dgram.data, r.cap)
          IN (r.form = "vector" /\ r.platform = "datagram") =>
                /\ Len(received) <= Len(r.out) * r.k
                /\ ~r.overflow
                /\ Flatten(r.out) = received
\* C34: a receive of bytes (the pointer form or receive<char>) that returns
\* the empty result, 0 or the empty vector, is one whose recv timed out; a
\* receive that took a datagram off the socket, of whatever length, returns
\* something else
EmptyResultIsTimeout ==
    \A t \in Threads :
        (/\ ret[t].op = "receive" /\ ret[t].k = 1 /\ ~ret[t].thrown
         /\ ret[t].value = 0 /\ BufferBytes(ret[t].form, ret[t].out) = <<>>)
        => ret[t].platform = "timeout"
\* the methods that take no lock
Accessors == {"set_socket_receive_timeout", "get_socket_file_descriptor"}
\* C35: set_socket_receive_timeout and get_socket_file_descriptor can run
\* on an existing endpoint whatever mutexes other threads hold, and their
\* step changes no mutex; the descriptor they use is open; the getter
\* returns socket_file_descriptor; and recv of a receive call times out
\* exactly when nothing is queued and the timeout last set is not zero
AccessorsTakeNoLock ==
    [][\A t \in Threads :
          /\ (ret'[t] # ret[t] /\ ret'[t].op \in Accessors) =>
                /\ UNCHANGED <<pc, member_mutex, send_mutex, receive_mutex>>
                /\ obj[ret'[t].s] = "alive" /\ Open(ret'[t].s)
                /\ ret'[t].op = "get_socket_file_descriptor"
                      => ret'[t].out = socket_file_descriptor[ret'[t].s]
                /\ (ret'[t].op = "set_socket_receive_timeout" /\ ~ret'[t].thrown)
                      => so_rcvtimeo'[ret'[t].s] = timeout_struct(lastTimeout'[ret'[t].s])
          /\ (~crashed /\ pc[t] = "idle" /\ \E s \in DomLocks.recvSocks : obj[s] = "alive") =>
                /\ budget["set_socket_receive_timeout"] > 0 => ENABLED SetTimeout(t, DomLocks)
                /\ budget["get_socket_file_descriptor"] > 0 => ENABLED GetDescriptor(t, DomLocks)
          /\ (~crashed /\ pc[t] = "r_recv") =>
                /\ so_rcvtimeo[call[t].s] = timeout_struct(lastTimeout[call[t].s])
                /\ ENABLED ReceiveTimeout(t)
                      <=> (rxq[call[t].s] = <<>> /\ lastTimeout[call[t].s] # to_unsigned_int(0))]_vars
\* a set_socket_receive_timeout(1500) and a get_socket_file_descriptor have
\* returned while the other thread is inside recv holding receive_mutex
AccessorsTakeNoLockWitness ==
    \E t \in Threads : \E u \in Threads \ {t} :
        /\ ret[t].op = "get_socket_file_descriptor" /\ to_int(ret[t].out) = ConstructedFd(ret[t].s)
        /\ budget["set_socket_receive_timeout"] = 0
        /\ lastTimeout[ret[t].s] = to_unsigned_int(1500)
        /\ pc[u] = "r_recv" /\ call[u].s = ret[t].s /\ receive_mutex[ret[t].s] = u
\* C36: a UDPSocket::receive whose recv timed out returns the empty vector
\* and does not throw; a receive that throws throws runtime_error, and only
\* when recv failed otherwise
UDPSocketTimeoutReturnsEmpty ==
    \A t \in Threads :
        ret[t].op = "receive" =>
           /\ ret[t].platform = "timeout" => ~ret[t].thrown /\ ret[t].out = <<>>
           /\ ret[t].thrown => ret[t].kind = RUNTIME_ERROR /\ ret[t].platform = "failure"
=============================================================================
